---- MODULE Spec2Model ----
(***************************************************************************)
(* Verification model of kwin-types-parser-ts: the C++ type-signature      *)
(* lexer/parser, the type registry and converter, the dependency tracker   *)
(* and the dependency resolution service.                                  *)
(*                                                                         *)
(* A string is a sequence of one-character strings.                        *)
(***************************************************************************)
EXTENDS Integers, Sequences, FiniteSets, TLC

(***************************************************************************)
(* Characters and elementary string functions                              *)
(***************************************************************************)
LowerLetters ==
  {"a","b","c","d","e","f","g","h","i","j","k","l","m",
   "n","o","p","q","r","s","t","u","v","w","x","y","z"}

UpperLetters ==
  {"A","B","C","D","E","F","G","H","I","J","K","L","M",
   "N","O","P","Q","R","S","T","U","V","W","X","Y","Z"}

Digits == {"0","1","2","3","4","5","6","7","8","9"}

\* the character class \w of the regular expressions
WordChars == LowerLetters \cup UpperLetters \cup Digits \cup {"_"}

\* the characters an Identifier token may start with: [a-zA-Z_]
IdentStart == LowerLetters \cup UpperLetters \cup {"_"}

\* the character class \s (the model's alphabet holds the blank only)
SpaceChars == {" "}

Max(a, b) == IF a >= b THEN a ELSE b

Min(a, b) == IF a <= b THEN a ELSE b

\* s.substring(i-1): the suffix of s from position i (1-based)
Drop(s, i) == IF i > Len(s) THEN <<>> ELSE SubSeq(s, i, Len(s))

\* s.startsWith(p) at position i (1-based)
StartsAt(s, i, p) ==
  /\ i + Len(p) - 1 <= Len(s)
  /\ \A k \in 1..Len(p) : s[i + k - 1] = p[k]

\* s.includes(p)
Includes(s, p) == \E i \in 1..(Len(s) + 1) : StartsAt(s, i, p)

\* s.endsWith(p)
EndsWith(s, p) == Len(p) <= Len(s) /\ StartsAt(s, Len(s) - Len(p) + 1, p)

RECURSIVE Concat(_)
\* parts.join("")
Concat(parts) ==
  IF parts = <<>> THEN <<>> ELSE Head(parts) \o Concat(Tail(parts))

RECURSIVE JoinWith(_, _)
\* parts.join(sep)
JoinWith(parts, sep) ==
  IF parts = <<>> THEN <<>>
  ELSE IF Len(parts) = 1 THEN parts[1]
  ELSE parts[1] \o sep \o JoinWith(Tail(parts), sep)

RECURSIVE ReplaceAll(_, _, _)
\* s.replace(/p/g, r) for a literal, non-empty p
ReplaceAll(s, p, r) ==
  IF s = <<>> THEN <<>>
  ELSE IF StartsAt(s, 1, p) THEN r \o ReplaceAll(Drop(s, Len(p) + 1), p, r)
  ELSE <<s[1]>> \o ReplaceAll(Tail(s), p, r)

RECURSIVE RemoveChars(_, _)
\* s.replace(/[cs]/g, "")
RemoveChars(s, cs) ==
  IF s = <<>> THEN <<>>
  ELSE IF s[1] \in cs THEN RemoveChars(Tail(s), cs)
  ELSE <<s[1]>> \o RemoveChars(Tail(s), cs)

RECURSIVE CollapseSpaces(_)
\* s.replace(/\s+/g, " ")
CollapseSpaces(s) ==
  IF s = <<>> THEN <<>>
  ELSE IF s[1] \in SpaceChars
       THEN IF Len(s) > 1 /\ s[2] \in SpaceChars
            THEN CollapseSpaces(Tail(s))
            ELSE <<" ">> \o CollapseSpaces(Tail(s))
  ELSE <<s[1]>> \o CollapseSpaces(Tail(s))

RECURSIVE TrimLeft(_)
TrimLeft(s) ==
  IF s # <<>> /\ s[1] \in SpaceChars THEN TrimLeft(Tail(s)) ELSE s

RECURSIVE TrimRight(_)
TrimRight(s) ==
  IF s # <<>> /\ s[Len(s)] \in SpaceChars
  THEN TrimRight(SubSeq(s, 1, Len(s) - 1)) ELSE s

\* s.trim()
Trim(s) == TrimRight(TrimLeft(s))

RECURSIVE SplitOn(_, _, _)
\* s.split(sep) for a literal, non-empty sep; acc is the part being read
SplitOn(s, sep, acc) ==
  IF s = <<>> THEN <<acc>>
  ELSE IF StartsAt(s, 1, sep)
       THEN <<acc>> \o SplitOn(Drop(s, Len(sep) + 1), sep, <<>>)
  ELSE SplitOn(Tail(s), sep, Append(acc, s[1]))

Split(s, sep) == SplitOn(s, sep, <<>>)

(***************************************************************************)
(* Words of the program text                                               *)
(***************************************************************************)
kwConst == <<"c","o","n","s","t">>

sScope == <<":",":">>

sDot == <<".">>

sAny == <<"a","n","y">>

sArray == <<"A","r","r","a","y">>

sMap == <<"M","a","p">>

sSet == <<"S","e","t">>

sKWin == <<"K","W","i","n">>

sUndefined == <<"u","n","d","e","f","i","n","e","d">>

(***************************************************************************)
(* type-utils: the plain-text helpers                                      *)
(***************************************************************************)
RECURSIVE RemoveConstWords(_, _)
\* s.replace(/\bconst\b/g, ""): prev is the character before s ("" at the start)
RemoveConstWords(s, prev) ==
  IF s = <<>> THEN <<>>
  ELSE IF /\ StartsAt(s, 1, kwConst)
          /\ prev \notin WordChars
          /\ (Len(s) = 5 \/ s[6] \notin WordChars)
       THEN RemoveConstWords(Drop(s, 6), "t")
  ELSE <<s[1]>> \o RemoveConstWords(Tail(s), s[1])

cleanCppTypeString(cppType) ==
  Trim(CollapseSpaces(RemoveChars(RemoveConstWords(cppType, ""), {"&", "*"})))

cleanTypeForLookup(typeName) ==
  Trim(RemoveChars(typeName, {"<", ">", "*", "&", "[", "]"}))

\* fullTypeName.split("::").pop() || fullTypeName
extractTypeName(fullTypeName) ==
  LET pop(parts) == parts[Len(parts)]
      orElse(last) == IF last # <<>> THEN last ELSE fullTypeName
  IN orElse(pop(Split(fullTypeName, sScope)))

normalizeTypeName(typeName) == Trim(CollapseSpaces(typeName))

isObjectLiteral(typeName) ==
  /\ typeName # <<>>
  /\ typeName[1] = "{"
  /\ typeName[Len(typeName)] = "}"

(***************************************************************************)
(* type-parser.ts: the lexer                                               *)
(***************************************************************************)
Tok(kind, image) == [kind |-> kind, image |-> image]

\* the one-character tokens of allTokens, in the order they are tried
PunctKind(c) ==
  CASE c = "." -> "Dot"
    [] c = "<" -> "LeftAngle"
    [] c = ">" -> "RightAngle"
    [] c = "[" -> "LeftBracket"
    [] c = "]" -> "RightBracket"
    [] c = "," -> "Comma"
    [] c = "*" -> "Asterisk"
    [] c = "&" -> "Ampersand"
    [] OTHER -> "None"

RECURSIVE SpanLen(_, _, _)
\* the length of the longest run of characters of cs in s from position i
SpanLen(s, i, cs) ==
  IF i <= Len(s) /\ s[i] \in cs THEN 1 + SpanLen(s, i + 1, cs) ELSE 0

LexError == [ok |-> FALSE, tokens |-> <<>>]

RECURSIVE typeLexer(_, _)
\* Lexer.tokenize from position i: the first pattern of allTokens that
\* matches at i wins (WhiteSpace, Const, Scope, Dot, ..., Identifier); a
\* character no pattern matches is a lexing error
typeLexer(s, i) ==
  IF i > Len(s) THEN [ok |-> TRUE, tokens |-> <<>>]
  ELSE
    LET c == s[i]
        push(tok, rest) ==
          IF rest.ok THEN [ok |-> TRUE, tokens |-> <<tok>> \o rest.tokens]
          ELSE LexError
        \* the token matched at i: its kind and the length of its image
        match ==
          IF c \in SpaceChars
          THEN [kind |-> "WhiteSpace", n |-> SpanLen(s, i, SpaceChars)]
          ELSE IF StartsAt(s, i, kwConst) THEN [kind |-> "Const", n |-> 5]
          ELSE IF StartsAt(s, i, sScope) THEN [kind |-> "Scope", n |-> 2]
          ELSE IF PunctKind(c) # "None" THEN [kind |-> PunctKind(c), n |-> 1]
          ELSE IF c \in IdentStart
          THEN [kind |-> "Identifier", n |-> 1 + SpanLen(s, i + 1, WordChars)]
          ELSE [kind |-> "None", n |-> 0]
        step(m) ==
          IF m.kind = "None" THEN LexError
          ELSE IF m.kind = "WhiteSpace" THEN typeLexer(s, i + m.n)
          ELSE push(Tok(m.kind, SubSeq(s, i, i + m.n - 1)),
                    typeLexer(s, i + m.n))
    IN step(match)

\* CppTypeAnalyzer.tokenize: every lexing error is critical (the three
\* messages it would ignore name characters that are tokens themselves)
tokenize(typeString) == typeLexer(typeString, 1)

(***************************************************************************)
(* type-parser.ts: the parser                                              *)
(***************************************************************************)
\* null
NoParse == [ok |-> FALSE]

RECURSIVE QualifiedTail(_, _, _)
\* the loop of parseQualifiedType: (Scope | Dot) Identifier pairs
QualifiedTail(tokens, index, identifiers) ==
  IF /\ index + 1 <= Len(tokens)
     /\ tokens[index].kind \in {"Scope", "Dot"}
     /\ tokens[index + 1].kind = "Identifier"
  THEN QualifiedTail(tokens, index + 2,
                     Append(identifiers, tokens[index + 1].image))
  ELSE [identifiers |-> identifiers, nextIndex |-> index]

parseQualifiedType(tokens, startIndex) ==
  IF startIndex > Len(tokens) \/ tokens[startIndex].kind # "Identifier"
  THEN NoParse
  ELSE
    LET result(ids, nextIndex) ==
          IF Len(ids) = 1
          THEN [ok |-> TRUE, baseType |-> ids[1], namespace |-> <<>>,
                nextIndex |-> nextIndex]
          ELSE [ok |-> TRUE, baseType |-> ids[Len(ids)],
                namespace |-> JoinWith(SubSeq(ids, 1, Len(ids) - 1), sScope),
                nextIndex |-> nextIndex]
        unpack(r) == result(r.identifiers, r.nextIndex)
    IN unpack(QualifiedTail(tokens, startIndex + 1,
                            <<tokens[startIndex].image>>))

RECURSIVE BracketScan(_, _, _)
\* the loop of checkForArrayType: scan to the matching right bracket
BracketScan(tokens, bracketIndex, depth) ==
  IF bracketIndex <= Len(tokens) /\ depth > 0
  THEN BracketScan(tokens, bracketIndex + 1,
         IF tokens[bracketIndex].kind = "LeftBracket" THEN depth + 1
         ELSE IF tokens[bracketIndex].kind = "RightBracket" THEN depth - 1
         ELSE depth)
  ELSE [depth |-> depth, bracketIndex |-> bracketIndex]

checkForArrayType(tokens, startIndex) ==
  IF startIndex <= Len(tokens) /\ tokens[startIndex].kind = "LeftBracket"
  THEN LET result(r) ==
             IF r.depth = 0
             THEN [isArray |-> TRUE, nextIndex |-> r.bracketIndex]
             ELSE [isArray |-> FALSE, nextIndex |-> startIndex]
       IN result(BracketScan(tokens, startIndex + 1, 1))
  ELSE [isArray |-> FALSE, nextIndex |-> startIndex]

RECURSIVE ArgNames(_)
\* templateArgs.map((arg) => arg.fullName)
ArgNames(args) ==
  IF args = <<>> THEN <<>> ELSE <<args[1].fullName>> \o ArgNames(Tail(args))

buildFullName_Unclosed(baseType, namespace, hasArgs, templateArgs) ==
  LET name == IF namespace # <<>> THEN namespace \o sScope \o baseType
              ELSE baseType
  IN IF hasArgs /\ Len(templateArgs) > 0
     THEN name \o <<"<">> \o JoinWith(ArgNames(templateArgs), <<",", " ">>)
     ELSE name

buildFullName(baseType, namespace, hasArgs, templateArgs) ==
  LET name == IF namespace # <<>> THEN namespace \o sScope \o baseType
              ELSE baseType
  IN IF hasArgs /\ Len(templateArgs) > 0
     THEN name \o <<"<">> \o JoinWith(ArgNames(templateArgs), <<",", " ">>)
               \o <<">">>
     ELSE name

buildTypeFullName(baseType, namespace, hasArgs, templateArgs, isArrayType) ==
  LET name == buildFullName(baseType, namespace, hasArgs, templateArgs)
  IN IF isArrayType THEN name \o <<"[", "]">> ELSE name

RECURSIVE TokenImages(_)
\* tokens.map((t) => t.image)
TokenImages(tokens) ==
  IF tokens = <<>> THEN <<>>
  ELSE <<tokens[1].image>> \o TokenImages(Tail(tokens))

isArgumentSeparator(token, depth) == token.kind = "Comma" /\ depth = 1

RECURSIVE parseType(_)
RECURSIVE collectTemplateArguments(_, _, _, _, _)

\* parseTypeFromTokens: the argument is parsed again from the text its
\* token images give when joined without separator
parseTypeFromTokens(tokens) == parseType(Concat(TokenImages(tokens)))

addArgumentIfValid(tokens, args) ==
  IF tokens = <<>> THEN args
  ELSE LET add(parsed) == IF parsed.ok THEN Append(args, parsed) ELSE args
       IN add(parseTypeFromTokens(tokens))

\* the loop of collectTemplateArguments, one token per step
collectTemplateArguments(tokens, index, angleDepth, currentArg, args) ==
  IF ~(index <= Len(tokens) /\ angleDepth > 0)
  THEN [args |-> args, nextIndex |-> index]
  ELSE
    LET token == tokens[index]
    IN IF token.kind = "LeftAngle"
       THEN collectTemplateArguments(tokens, index + 1, angleDepth + 1,
                                     Append(currentArg, token), args)
       ELSE IF token.kind = "RightAngle"
       THEN IF angleDepth - 1 = 0
            THEN [args |-> addArgumentIfValid(currentArg, args),
                  nextIndex |-> index + 1]
            ELSE collectTemplateArguments(tokens, index + 1, angleDepth - 1,
                                          Append(currentArg, token), args)
       ELSE IF isArgumentSeparator(token, angleDepth)
       THEN collectTemplateArguments(tokens, index + 1, angleDepth, <<>>,
                                     addArgumentIfValid(currentArg, args))
       ELSE collectTemplateArguments(tokens, index + 1, angleDepth,
                                     Append(currentArg, token), args)

parseTemplateArguments(tokens, startIndex) ==
  collectTemplateArguments(tokens, startIndex + 1, 1, <<>>, <<>>)

parseTypeExpression(tokens, startIndex) ==
  LET result(q, hasArgs, t, a) ==
        [ok |-> TRUE,
         baseType |-> q.baseType,
         namespace |-> q.namespace,
         hasArgs |-> hasArgs,
         templateArgs |-> t.args,
         fullName |-> buildTypeFullName(q.baseType, q.namespace, hasArgs,
                                        t.args, a.isArray),
         nextIndex |-> a.nextIndex]
      withArray(q, hasArgs, t) ==
        result(q, hasArgs, t, checkForArrayType(tokens, t.nextIndex))
      withArgs(q, hasArgs) ==
        withArray(q, hasArgs,
                  IF hasArgs THEN parseTemplateArguments(tokens, q.nextIndex)
                  ELSE [args |-> <<>>, nextIndex |-> q.nextIndex])
      qualified(q) ==
        IF ~q.ok THEN NoParse
        ELSE withArgs(q, q.nextIndex <= Len(tokens)
                         /\ tokens[q.nextIndex].kind = "LeftAngle")
  IN qualified(parseQualifiedType(tokens, startIndex))

\* CppTypeAnalyzer.parseType: namespace <<>> stands for undefined, hasArgs
\* FALSE for templateArgs undefined
parseType(typeString) ==
  LET result(tokens, isConst, e) ==
        IF ~e.ok THEN NoParse
        ELSE [ok |-> TRUE,
              baseType |-> e.baseType,
              namespace |-> e.namespace,
              hasArgs |-> e.hasArgs,
              templateArgs |-> e.templateArgs,
              isConst |-> isConst,
              isPointer |-> \E k \in e.nextIndex..Len(tokens) :
                               tokens[k].kind = "Asterisk",
              isReference |-> \E k \in e.nextIndex..Len(tokens) :
                                 tokens[k].kind = "Ampersand",
              fullName |-> e.fullName]
      expression(tokens, isConst) ==
        result(tokens, isConst,
               parseTypeExpression(tokens, IF isConst THEN 2 ELSE 1))
      lexed(l) ==
        IF ~l.ok THEN NoParse
        ELSE expression(l.tokens,
                        l.tokens # <<>> /\ l.tokens[1].kind = "Const")
  IN lexed(tokenize(typeString))

\* CppTypeAnalyzer.normalizeType
normalizeType(typeString) ==
  LET render(parsed) ==
        IF ~parsed.ok THEN Trim(typeString)
        ELSE (IF parsed.isConst THEN kwConst \o <<" ">> ELSE <<>>)
             \o parsed.fullName
             \o (IF parsed.isPointer THEN <<"*">> ELSE <<>>)
             \o (IF parsed.isReference THEN <<"&">> ELSE <<>>)
  IN render(parseType(typeString))

(***************************************************************************)
(* type-system.ts: TypeRegistry                                            *)
(*                                                                         *)
(* A registry is a record of the fields of the class.  A Map is a function *)
(* whose domain is the set of its keys.                                    *)
(***************************************************************************)
EmptyMap == <<>>

MapHas(m, k) == k \in DOMAIN m

MapSet(m, k, v) == [x \in (DOMAIN m) \cup {k} |-> IF x = k THEN v ELSE m[x]]

\* a TypeDefinition: category and description do not influence any lookup
TypeDef(name, tsType, aliases) ==
  [name |-> name, tsType |-> tsType, aliases |-> aliases]

\* custom rules are closures in the program; here a condition is one of
\* "eq" (type === arg), "prefix" (type.startsWith(arg)), "any", and a
\* transform one of "const" (returns arg), "id" (returns the type)
Rule(name, priority, ck, ca, tk, ta) ==
  [name |-> name, priority |-> priority,
   condition |-> [kind |-> ck, arg |-> ca],
   transform |-> [kind |-> tk, arg |-> ta]]

RuleCondition(rule, type) ==
  CASE rule.condition.kind = "eq" -> type = rule.condition.arg
    [] rule.condition.kind = "prefix" -> StartsAt(type, 1, rule.condition.arg)
    [] OTHER -> TRUE

RuleTransform(rule, type) ==
  IF rule.transform.kind = "const" THEN rule.transform.arg ELSE type

RECURSIVE InsertByPriority(_, _)
\* insertion of rule r behind every rule of priority >= r.priority
InsertByPriority(sorted, r) ==
  IF sorted = <<>> THEN <<r>>
  ELSE IF sorted[1].priority >= r.priority
       THEN <<sorted[1]>> \o InsertByPriority(Tail(sorted), r)
  ELSE <<r>> \o sorted

\* mutant of SortByPriority: the rules stay in the order they were given
SortByPriority_Unsorted(rules) == rules

RECURSIVE SortByPriority(_)
\* rules.sort((a, b) => b.priority - a.priority): descending and stable
SortByPriority(rules) ==
  IF rules = <<>> THEN <<>>
  ELSE InsertByPriority(SortByPriority(SubSeq(rules, 1, Len(rules) - 1)),
                        rules[Len(rules)])

RECURSIVE SetAliases(_, _, _)
SetAliases(aliasMap, aliases, name) ==
  IF aliases = <<>> THEN aliasMap
  ELSE SetAliases(MapSet(aliasMap, aliases[1], name), Tail(aliases), name)

\* TypeRegistry.registerType; clearAllCaches empties the registry's cacheMap
registerType(reg, typeDef) ==
  [reg EXCEPT !.typeDefinitions = MapSet(@, typeDef.name, typeDef),
              !.aliasMap = SetAliases(@, typeDef.aliases, typeDef.name),
              !.cacheMap = EmptyMap]

RECURSIVE RegisterAll(_, _)
RegisterAll(reg, defs) ==
  IF defs = <<>> THEN reg
  ELSE RegisterAll(registerType(reg, defs[1]), Tail(defs))

EmptyRegistry ==
  [typeDefinitions |-> EmptyMap, aliasMap |-> EmptyMap,
   templateMappings |-> <<>>, namespaceMappings |-> <<>>,
   customRules |-> <<>>, cacheMap |-> EmptyMap]

\* TypeRegistry.loadFromConfig
loadFromConfig(reg, config) ==
  [RegisterAll(EmptyRegistry, config.mappings)
     EXCEPT !.templateMappings = config.templateMappings,
            !.namespaceMappings = config.namespaceMappings,
            !.customRules = SortByPriority(config.customRules)]

\* TypeRegistry.addCustomRule
addCustomRule(reg, rule) ==
  [reg EXCEPT !.customRules = SortByPriority(Append(@, rule)),
              !.cacheMap = EmptyMap]

\* aliasMap.get(name) || name
ActualName(reg, name) ==
  IF MapHas(reg.aliasMap, name) /\ reg.aliasMap[name] # <<>>
  THEN reg.aliasMap[name] ELSE name

\* TypeRegistry.hasType
hasType(reg, name) == MapHas(reg.typeDefinitions, ActualName(reg, name))

\* TypeRegistry.getType: found FALSE stands for undefined
getType(reg, name) ==
  IF hasType(reg, name)
  THEN [found |-> TRUE, def |-> reg.typeDefinitions[ActualName(reg, name)]]
  ELSE [found |-> FALSE]

(***************************************************************************)
(* type-system.ts: TypeConverter                                           *)
(*                                                                         *)
(* A conversion returns [ok, v, cache]: ok FALSE when the call throws, v   *)
(* the returned string, cache the conversionCache after the call.          *)
(***************************************************************************)
\* the deepest chain of nested cppToTypeScript calls the model follows; a
\* chain that does not end within it is the program's stack overflow
MaxCallDepth == 8

Returned(v, cache) == [ok |-> TRUE, v |-> v, cache |-> cache]

Thrown(cache) == [ok |-> FALSE, v |-> <<>>, cache |-> cache]

\* TypeConverter.createBaseTypePattern
createBaseTypePattern(pattern) ==
  LET noHat == IF pattern # <<>> /\ pattern[1] = "^" THEN Tail(pattern)
               ELSE pattern
      noEnd == IF noHat # <<>> /\ noHat[Len(noHat)] = "$"
               THEN SubSeq(noHat, 1, Len(noHat) - 1) ELSE noHat
  IN Split(noEnd, <<"<">>)[1]

\* TypeConverter.checkTemplateMapping: new RegExp("^" + base + "$") tested
\* on baseType; the base portions of the model's patterns are literal text
checkTemplateMapping(parsed, mapping) ==
  createBaseTypePattern(mapping.pattern) = parsed.baseType

\* TypeConverter.cleanTypeString
cleanTypeString(cppType) ==
  LET clean(parsed) ==
        IF parsed.ok THEN parsed.fullName ELSE cleanCppTypeString(cppType)
  IN clean(parseType(cppType))

\* TypeConverter.normalizeTypeName
converterNormalizeTypeName(typeName) ==
  LET orElse(normalized) ==
        IF normalized # <<>> THEN normalized ELSE normalizeTypeName(typeName)
  IN orElse(normalizeType(typeName))

\* a namespace step that knows no mapping: the namespace, dotted, is kept
handleNamespaceTypes_Unmapped(reg, type) ==
  LET handle(parsed) ==
        IF ~parsed.ok THEN type
        ELSE IF parsed.namespace = <<>> THEN type
        ELSE ReplaceAll(parsed.namespace, sScope, sDot) \o sDot
               \o parsed.baseType
  IN handle(parseType(type))

\* TypeConverter.handleNamespaceTypes
handleNamespaceTypes(reg, type) ==
  LET mapped(parsed, mapping) ==
        IF mapping.stripNamespace THEN parsed.baseType
        ELSE mapping.tsNamespace \o sDot \o parsed.baseType
      \* hits: the positions of the mappings of the parsed namespace
      first(parsed, hits) ==
        IF hits # {}
        THEN mapped(parsed, reg.namespaceMappings[CHOOSE i \in hits :
                                                    \A j \in hits : i <= j])
        ELSE ReplaceAll(parsed.namespace, sScope, sDot) \o sDot
               \o parsed.baseType
      handle(parsed) ==
        IF ~parsed.ok THEN type
        ELSE IF parsed.namespace = <<>> THEN type
        ELSE first(parsed,
                   {i \in 1..Len(reg.namespaceMappings) :
                      reg.namespaceMappings[i].cppNamespace = parsed.namespace})
  IN handle(parseType(type))

\* the placeholder of the n-th generic argument, n < 10
Placeholder(n) ==
  <<"$", <<"1","2","3","4","5","6","7","8","9">>[n]>>

\* the first custom rule, in the registry's order, whose condition holds
FirstMatchingRule(reg, cleanType) ==
  LET first(hits) ==
        IF hits = {} THEN 0 ELSE CHOOSE i \in hits : \A j \in hits : i <= j
  IN first({i \in 1..Len(reg.customRules) :
              RuleCondition(reg.customRules[i], cleanType)})

\* the first template mapping, in the registry's order, that matches
FirstMatchingTemplate(reg, parsed) ==
  LET first(hits) ==
        IF hits = {} THEN 0 ELSE CHOOSE i \in hits : \A j \in hits : i <= j
  IN first({i \in 1..Len(reg.templateMappings) :
              checkTemplateMapping(parsed, reg.templateMappings[i])})

RECURSIVE cppToTypeScript(_, _, _, _)
RECURSIVE ConvertEach(_, _, _, _, _)
RECURSIVE SubstituteArgs(_, _, _, _, _, _)

\* templateArgs.map((arg) => this.cppToTypeScript(arg.fullName)): the
\* converted names in vs, in order; stops at the first call that throws
ConvertEach(reg, cache, names, fuel, vs) ==
  IF names = <<>> THEN [ok |-> TRUE, vs |-> vs, cache |-> cache]
  ELSE LET next(r) ==
             IF ~r.ok THEN [ok |-> FALSE, vs |-> vs, cache |-> r.cache]
             ELSE ConvertEach(reg, r.cache, Tail(names), fuel,
                              Append(vs, r.v))
       IN next(cppToTypeScript(reg, cache, names[1], fuel))

\* the reduce of handleTemplateTypes: placeholder $index of acc is replaced
\* by the converted argument, for each argument in order
SubstituteArgs(reg, cache, names, index, acc, fuel) ==
  IF names = <<>> THEN Returned(acc, cache)
  ELSE LET next(r) ==
             IF ~r.ok THEN Thrown(r.cache)
             ELSE SubstituteArgs(reg, r.cache, Tail(names), index + 1,
                                 ReplaceAll(acc, Placeholder(index), r.v),
                                 fuel)
       IN next(cppToTypeScript(reg, cache, names[1], fuel))

\* TypeConverter.handleTemplateTypes
handleTemplateTypes(reg, cache, type, fuel) ==
  LET rebuilt(parsed, c) ==
        IF ~c.ok THEN Thrown(c.cache)
        ELSE Returned(parsed.baseType \o <<"<">>
                        \o JoinWith(c.vs, <<",", " ">>) \o <<">">>,
                      c.cache)
      \* m: the position of the first matching template mapping, or 0
      mappedOrRebuilt(parsed, m, names) ==
        IF m # 0
        THEN SubstituteArgs(reg, cache, names, 1,
                            reg.templateMappings[m].replacement, fuel)
        ELSE rebuilt(parsed, ConvertEach(reg, cache, names, fuel, <<>>))
      handle(parsed) ==
        IF ~parsed.ok THEN Returned(type, cache)
        ELSE IF ~parsed.hasArgs THEN Returned(type, cache)
        ELSE mappedOrRebuilt(parsed, FirstMatchingTemplate(reg, parsed),
                             ArgNames(parsed.templateArgs))
  IN handle(parseType(type))

\* TypeConverter.handleSpecialContainers: found FALSE stands for null;
\* templateArgs[0].fullName of an empty argument list throws a TypeError
handleSpecialContainers(reg, cache, parsed, fuel) ==
  LET none == [ok |-> TRUE, found |-> FALSE, v |-> <<>>, cache |-> cache]
      thrown(c) == [ok |-> FALSE, found |-> FALSE, v |-> <<>>, cache |-> c]
      some(v, c) == [ok |-> TRUE, found |-> TRUE, v |-> v, cache |-> c]
      \* names: the full names of the arguments; r: the first one converted
      wrapFirst(names, r) ==
        IF parsed.baseType = sArray
        THEN IF names = <<>> THEN thrown(cache)
             ELSE IF ~r.ok THEN thrown(r.cache)
             ELSE some(r.v \o <<"[", "]">>, r.cache)
        ELSE IF names = <<>> THEN thrown(cache)
             ELSE IF ~r.ok THEN thrown(r.cache)
             ELSE some(sSet \o <<"<">> \o r.v \o <<">">>, r.cache)
      wrapPair(c) ==
        IF ~c.ok THEN thrown(c.cache)
        ELSE some(sMap \o <<"<">> \o c.vs[1] \o <<",", " ">> \o c.vs[2]
                    \o <<">">>, c.cache)
      handle(names) ==
        IF ~parsed.hasArgs THEN none
        ELSE IF parsed.baseType = sArray
        THEN wrapFirst(names, IF names = <<>> THEN Thrown(cache)
                              ELSE cppToTypeScript(reg, cache, names[1], fuel))
        ELSE IF parsed.baseType = sMap /\ Len(names) >= 2
        THEN wrapPair(ConvertEach(reg, cache, SubSeq(names, 1, 2), fuel,
                                  <<>>))
        ELSE IF parsed.baseType = sSet
        THEN wrapFirst(names, IF names = <<>> THEN Thrown(cache)
                              ELSE cppToTypeScript(reg, cache, names[1], fuel))
        ELSE none
  IN handle(ArgNames(parsed.templateArgs))

\* TypeConverter.resolveTemplateTypes
resolveTemplateTypes(reg, cache, type, fuel) ==
  LET rebuilt(parsed, c) ==
        IF ~c.ok THEN Thrown(c.cache)
        ELSE Returned(parsed.baseType \o <<"<">>
                        \o JoinWith(c.vs, <<",", " ">>) \o <<">">>,
                      c.cache)
      \* specialResult: what handleSpecialContainers gave
      specialOrRebuilt(parsed, specialResult) ==
        IF ~specialResult.ok THEN Thrown(specialResult.cache)
        ELSE IF specialResult.found
        THEN Returned(specialResult.v, specialResult.cache)
        ELSE rebuilt(parsed,
                     ConvertEach(reg, specialResult.cache,
                                 ArgNames(parsed.templateArgs), fuel, <<>>))
      resolve(parsed) ==
        IF ~parsed.ok THEN Returned(type, cache)
        ELSE IF ~parsed.hasArgs THEN Returned(type, cache)
        ELSE specialOrRebuilt(parsed,
                              handleSpecialContainers(reg, cache, parsed,
                                                      fuel))
  IN resolve(parseType(type))

\* the direct lookup, the normalized lookup and the fallback that end
\* performConversion
LookupOrFallback(reg, cleanType) ==
  LET normalizedLookup(normalizedTypeDef) ==
        IF normalizedTypeDef.found THEN normalizedTypeDef.def.tsType
        ELSE IF cleanType # <<>> THEN cleanType
        ELSE sAny
      directLookup(typeDef) ==
        IF typeDef.found THEN typeDef.def.tsType
        ELSE normalizedLookup(
               getType(reg, converterNormalizeTypeName(cleanType)))
  IN directLookup(getType(reg, cleanType))

\* TypeConverter.performConversion
performConversion(reg, cache, cppType, fuel) ==
  LET \* the text the three early returns hand to resolveTemplateTypes, or
      \* the result of the lookups: resolve FALSE marks the latter
      toResolve(v, c) == [ok |-> TRUE, resolve |-> TRUE, v |-> v, cache |-> c]
      final(v, c) == [ok |-> TRUE, resolve |-> FALSE, v |-> v, cache |-> c]
      afterNamespace(cleanType, c, namespaceResult) ==
        IF namespaceResult # cleanType THEN toResolve(namespaceResult, c)
        ELSE final(LookupOrFallback(reg, cleanType), c)
      afterTemplate(cleanType, templateResult) ==
        IF ~templateResult.ok
        THEN [ok |-> FALSE, resolve |-> FALSE, v |-> <<>>,
              cache |-> templateResult.cache]
        ELSE IF templateResult.v # cleanType
        THEN toResolve(templateResult.v, templateResult.cache)
        ELSE afterNamespace(cleanType, templateResult.cache,
                            handleNamespaceTypes(reg, cleanType))
      \* rule: the position of the first custom rule that applies, or 0
      afterRules(cleanType, rule) ==
        IF rule # 0
        THEN toResolve(RuleTransform(reg.customRules[rule], cleanType), cache)
        ELSE afterTemplate(cleanType,
                           handleTemplateTypes(reg, cache, cleanType, fuel))
      cleaned(cleanType) ==
        afterRules(cleanType, FirstMatchingRule(reg, cleanType))
      finish(step) ==
        IF ~step.ok THEN Thrown(step.cache)
        ELSE IF step.resolve
        THEN resolveTemplateTypes(reg, step.cache, step.v, fuel)
        ELSE Returned(step.v, step.cache)
  IN finish(cleaned(cleanTypeString(cppType)))

\* TypeConverter.cppToTypeScript; fuel is the call depth left
cppToTypeScript(reg, cache, cppType, fuel) ==
  IF MapHas(cache, cppType) THEN Returned(cache[cppType], cache)
  ELSE IF fuel = 0 THEN Thrown(cache)
  ELSE LET store(r) ==
             IF ~r.ok THEN r
             ELSE Returned(r.v, MapSet(r.cache, cppType, r.v))
       IN store(performConversion(reg, cache, cppType, fuel - 1))

(***************************************************************************)
(* default-type-mappings.ts: the configuration every TypeMapper and every  *)
(* TypeDependencyTracker starts from (a selection of its entries)          *)
(***************************************************************************)
TemplateMapping(pattern, replacement) ==
  [pattern |-> pattern, replacement |-> replacement]

NamespaceMapping(cppNamespace, tsNamespace, stripNamespace) ==
  [cppNamespace |-> cppNamespace, tsNamespace |-> tsNamespace,
   stripNamespace |-> stripNamespace]

defaultTypeMappings ==
  [mappings |->
     << TypeDef(<<"i","n","t">>, <<"n","u","m","b","e","r">>, <<>>),
        TypeDef(<<"b","o","o","l">>, <<"b","o","o","l","e","a","n">>, <<>>),
        TypeDef(<<"Q","S","t","r","i","n","g">>, <<"s","t","r","i","n","g">>, <<>>) >>,
   templateMappings |->
     << TemplateMapping(<<"^","Q","L","i","s","t","<","(",".","+",")",">","$">>, <<"$","1","[","]">>),
        TemplateMapping(<<"^","Q","M","a","p","<","(",".","+",")",",","\\","s","*","(",".","+",")",">","$">>, <<"M","a","p","<","$","1",","," ","$","2",">">>),
        TemplateMapping(<<"^","Q","S","e","t","<","(",".","+",")",">","$">>, <<"S","e","t","<","$","1",">">>),
        TemplateMapping(<<"^","s","t","d",":",":","v","e","c","t","o","r","<","(",".","+",")",">","$">>, <<"$","1","[","]">>),
        TemplateMapping(<<"^","s","t","d",":",":","m","a","p","<","(",".","+",")",",","\\","s","*","(",".","+",")",">","$">>, <<"M","a","p","<","$","1",","," ","$","2",">">>),
        TemplateMapping(<<"^","s","t","d",":",":","s","e","t","<","(",".","+",")",">","$">>, <<"S","e","t","<","$","1",">">>) >>,
   namespaceMappings |->
     << NamespaceMapping(<<"K","W","i","n">>, <<"K","W","i","n">>, FALSE),
        NamespaceMapping(<<"Q","t">>, <<"Q","t">>, FALSE),
        NamespaceMapping(<<"s","t","d">>, <<>>, TRUE) >>,
   customRules |-> <<>>]

\* new TypeRegistry(defaultTypeMappings)
DefaultRegistry == loadFromConfig(EmptyRegistry, defaultTypeMappings)

(***************************************************************************)
(* The type mapper as a state machine: one TypeRegistry and the            *)
(* TypeConverter built on it (type-mapper.ts holds the pair), mutated and  *)
(* queried in any order.                                                   *)
(***************************************************************************)
VARIABLES
  registry,         \* the fields of the TypeRegistry
  conversionCache,  \* TypeConverter.conversionCache
  convCall,         \* the last cppToTypeScript call: input, outcome, value
  addedRules,       \* history: the custom rules in the order they were given
  mutations         \* history: the number of registry mutations so far

mapperVars == <<registry, conversionCache, convCall, addedRules, mutations>>

\* The dependency resolution of one parser: its repository, its tracker and
\* its TypeDependencyService, and the documentation it reads.
VARIABLES
  world,                 \* the documentation tree the parser runs on
  session,               \* the number of documents handed to the pipeline
  repository,            \* InMemoryParsingRepository: classes,
                         \* discoveredNamespaceFiles, duplicatesRemoved
  parsedClasses,         \* the keys of TypeDependencyTracker.context.parsedClasses
  pendingResolutions,    \* full name -> the promise of its resolution
  processedClasses,
  circularDependencies,
  sourceDocuments,       \* full name -> Document
  maxDepthReached,
  resolvedTypesCount,
  unresolvedTypesCount,
  pc,                    \* where resolveAllDependencies stands
  iteration,             \* its local iteration
  pendingCount,          \* its local pendingCount
  maxIterationsWarned,   \* history: the "Maximum iterations" warning was logged
  lastSettled            \* history: the resolution that settled last

serviceVars ==
  <<pendingResolutions, processedClasses, circularDependencies,
    sourceDocuments, maxDepthReached, resolvedTypesCount,
    unresolvedTypesCount>>

resolverVars ==
  <<world, session, repository, parsedClasses, serviceVars, pc, iteration,
    pendingCount, maxIterationsWarned, lastSettled>>

\* The calls made on the CppTypeAnalyzer (cppTypeAnalyzer).
VARIABLES
  parseCall              \* the last parseType call: its input, what the
                         \* input was taken from, and the result

\* The calls made on TypeMapper.loadConfig.
VARIABLES
  loadCall               \* the last loadConfig call: its number, the file it
                         \* was given, its outcome and what
                         \* createTypeSystemFromFile gave

\* The calls made on TypeDependencyTracker.extractTypeDependencies.
VARIABLES
  trackCall              \* the last extractTypeDependencies call: the
                         \* declaration, its document, and what was returned

\* The ParsingPipeline of the parser.
VARIABLES
  pipeline               \* its stages, and of its last execute: the status,
                         \* the position in the loop, the value of result,
                         \* the process calls made and how many have settled

callVars == <<parseCall, loadCall, trackCall, pipeline>>

vars == <<mapperVars, resolverVars, callVars>>

\* no call was made yet
NoParseCall == [input |-> <<>>, source |-> "none", result |-> [ok |-> FALSE]]

NoTrackCall == [called |-> FALSE]

NoLoadCall == [n |-> 0, file |-> [kind |-> "none"], outcome |-> "none",
               system |-> [ok |-> FALSE, message |-> <<>>]]

\* nothing was settled yet
NoSettle == [name |-> <<>>, outcome |-> "none", fullName |-> <<>>]

\* new ParsingPipeline(): no stage, execute not called
NewPipeline ==
  [stages |-> <<>>, status |-> "idle", index |-> 0, input |-> <<>>,
   result |-> <<>>, calls |-> <<>>, settled |-> 0, error |-> <<>>]

\* a parser whose dependency resolution has not run: new
\* TypeDependencyTracker(), new TypeDependencyService(...), and a repository
\* that holds the classes preloaded
NewParser(preloaded) ==
  /\ session = 0
  /\ repository = [classes |-> preloaded, discoveredNamespaceFiles |-> {},
                   duplicatesRemoved |-> 0]
  /\ parsedClasses = {}
  /\ pendingResolutions = EmptyMap
  /\ processedClasses = {}
  /\ circularDependencies = {}
  /\ sourceDocuments = EmptyMap
  /\ maxDepthReached = 0
  /\ resolvedTypesCount = 0
  /\ unresolvedTypesCount = 0
  /\ pc = "idle"
  /\ iteration = 0
  /\ pendingCount = 0
  /\ maxIterationsWarned = FALSE
  /\ lastSettled = NoSettle
  /\ parseCall = NoParseCall
  /\ loadCall = NoLoadCall
  /\ trackCall = NoTrackCall
  /\ pipeline = NewPipeline

\* the most registry mutations of one behaviour
MaxMutations == 2

\* the most entries the conversion cache holds in the model
MaxCacheSize == 2

NoCall == [input |-> <<>>, outcome |-> "none", v |-> <<>>]

\* type strings handed to cppToTypeScript
ConvInputs ==
  { <<"i","n","t">>, <<"T">>, <<"N","s",":",":","T">>, <<"Q","L","i","s","t","<","T",">">>, <<"F","o","o",":",":","W","i","d","g","e","t">>,
    <<"*","s","t","d",":",":","S","e","t","<",">">>, <<>> }

\* definitions handed to registerType
TypeDefPool ==
  { TypeDef(<<"T">>, <<"X">>, <<>>),
    TypeDef(<<"W","i","d","g","e","t">>, <<"W">>, << <<"N","s",":",":","T">> >>) }

\* mappings handed to TypeMapper.addTypeMapping
TypeMappingPool == { <<<<"N","s",":",":","T">>, <<"Y">>>> }

ruleHigh == Rule("high", 10, "eq", <<"T">>, "const", <<"H","i">>)

ruleLow == Rule("low", 1, "prefix", <<"T">>, "const", <<"A","r","r","a","y","<","i","n","t",">">>)

ruleMid == Rule("mid", 5, "prefix", <<"N","s">>, "id", <<>>)

\* rules handed to addCustomRule
RulePool == { ruleHigh, ruleLow, ruleMid }

\* the registry of the spec's concrete scenarios, its rules out of order
scenarioConfig ==
  [mappings |-> << TypeDef(<<"i","n","t">>, <<"n","u","m","b","e","r">>, <<>>) >>,
   templateMappings |-> << TemplateMapping(<<"^","C","o","n","t","a","i","n","e","r","<","(",".","+",")",">","$">>, <<"$","1","[","]">>) >>,
   namespaceMappings |-> << NamespaceMapping(<<"F","o","o">>, <<"B","a","r">>, FALSE) >>,
   customRules |-> << ruleLow, ruleHigh >>]

\* configurations handed to loadFromConfig
ConfigPool == { defaultTypeMappings, scenarioConfig }

\* new TypeMapper(): the default registry and a converter with no entries
MapperInit ==
  /\ registry = DefaultRegistry
  /\ conversionCache = EmptyMap
  /\ convCall = NoCall
  /\ addedRules = <<>>
  /\ mutations = 0
  /\ world = 0
  /\ NewParser(<<>>)

\* TypeRegistry.registerType, called on the registry itself
RegisterType ==
  /\ mutations < MaxMutations
  /\ \E typeDef \in TypeDefPool : registry' = registerType(registry, typeDef)
  /\ mutations' = mutations + 1
  /\ UNCHANGED <<conversionCache, convCall, addedRules, resolverVars, callVars>>

\* TypeRegistry.addCustomRule
AddCustomRule ==
  /\ mutations < MaxMutations
  /\ \E rule \in RulePool :
       /\ registry' = addCustomRule(registry, rule)
       /\ addedRules' = Append(addedRules, rule)
  /\ mutations' = mutations + 1
  /\ UNCHANGED <<conversionCache, convCall, resolverVars, callVars>>

\* TypeRegistry.loadFromConfig: the full reload
LoadFromConfig ==
  /\ mutations < MaxMutations
  /\ \E config \in ConfigPool :
       /\ registry' = loadFromConfig(registry, config)
       /\ addedRules' = config.customRules
  /\ mutations' = mutations + 1
  /\ UNCHANGED <<conversionCache, convCall, resolverVars, callVars>>

\* TypeMapper.addTypeMapping: registerType, then typeConverter.clearCache()
AddTypeMapping ==
  /\ mutations < MaxMutations
  /\ \E m \in TypeMappingPool :
       registry' = registerType(registry, TypeDef(m[1], m[2], <<>>))
  /\ conversionCache' = EmptyMap
  /\ mutations' = mutations + 1
  /\ UNCHANGED <<convCall, addedRules, resolverVars, callVars>>

\* TypeConverter.clearCache
ClearCache ==
  /\ conversionCache # EmptyMap
  /\ conversionCache' = EmptyMap
  /\ registry' = [registry EXCEPT !.cacheMap = EmptyMap]
  /\ UNCHANGED <<convCall, addedRules, mutations, resolverVars, callVars>>

\* TypeConverter.cppToTypeScript(cppType); a call that throws keeps the
\* entries its completed nested calls stored
CppToTypeScript ==
  \E cppType \in ConvInputs :
    LET r == cppToTypeScript(registry, conversionCache, cppType, MaxCallDepth)
    IN /\ Cardinality(DOMAIN r.cache) <= MaxCacheSize
       /\ conversionCache' = r.cache
       /\ convCall' = [input |-> cppType,
                       outcome |-> IF r.ok THEN "returned" ELSE "thrown",
                       v |-> r.v]
       /\ UNCHANGED <<registry, addedRules, mutations, resolverVars, callVars>>

MapperNext ==
  \/ RegisterType
  \/ AddCustomRule
  \/ LoadFromConfig
  \/ AddTypeMapping
  \/ ClearCache
  \/ CppToTypeScript

SpecMapper == MapperInit /\ [][MapperNext]_vars

(***************************************************************************)
(* Claims about the registry and the converter (SpecMapper)                *)
(***************************************************************************)
\* what a call returns: whether it returned, and the string
Outcome(r) == [ok |-> r.ok, v |-> IF r.ok THEN r.v ELSE <<>>]

\* cppToTypeScript on the converter as it is, with its cache
CachedConvert(cppType) ==
  cppToTypeScript(registry, conversionCache, cppType, MaxCallDepth)

\* cppToTypeScript on a converter with an empty cache over the same registry
FreshConvert(cppType) ==
  cppToTypeScript(registry, EmptyMap, cppType, MaxCallDepth)

\* C1: in every state, so also after every registry mutation, each type
\* string converts to what a converter with an empty cache over the current
\* registry returns: no stale result is visible.
C1_NoStaleConversion ==
  \A t \in ConvInputs : Outcome(CachedConvert(t)) = Outcome(FreshConvert(t))

\* C8: no call of cppToTypeScript throws.
C8_NeverThrows == convCall.outcome # "thrown"

\* the type's namespace is the source namespace of a namespace-mapping rule
NamespaceRuleMatches(reg, parsed) ==
  /\ parsed.ok
  /\ \E i \in 1..Len(reg.namespaceMappings) :
       reg.namespaceMappings[i].cppNamespace = parsed.namespace

\* the type has generic arguments and a generic-substitution rule matches
TemplateRuleMatches(reg, parsed) ==
  parsed.ok /\ parsed.hasArgs /\ FirstMatchingTemplate(reg, parsed) # 0

\* C9: a type that matches no custom rule and no generic-substitution rule,
\* whose namespace matches no namespace-mapping rule, and whose cleaned
\* string has a definition in the registry, converts to that definition's
\* target type.
C9_DirectLookupReached ==
  \A t \in ConvInputs :
    LET cleanType == cleanTypeString(t)
        parsed == parseType(cleanType)
        typeDef == getType(registry, cleanType)
    IN ( /\ FirstMatchingRule(registry, cleanType) = 0
         /\ ~TemplateRuleMatches(registry, parsed)
         /\ ~NamespaceRuleMatches(registry, parsed)
         /\ typeDef.found )
       => Outcome(FreshConvert(t)) = [ok |-> TRUE, v |-> typeDef.def.tsType]

\* the rules given so far whose condition holds for cleanType and that no
\* matching rule exceeds in priority, by their position in addedRules
BestRules(cleanType) ==
  LET matching == {i \in 1..Len(addedRules) :
                     RuleCondition(addedRules[i], cleanType)}
  IN {i \in matching :
        \A j \in matching : addedRules[i].priority >= addedRules[j].priority}

\* C10 as stated: whenever a rule matches the cleaned type string, the
\* conversion returns the transform of a highest-priority matching rule.
C10_ResultIsTransform ==
  \A t \in ConvInputs :
    LET cleanType == cleanTypeString(t)
    IN BestRules(cleanType) # {} =>
         \E i \in BestRules(cleanType) :
           Outcome(performConversion(registry, conversionCache, t,
                                     MaxCallDepth))
             = [ok |-> TRUE, v |-> RuleTransform(addedRules[i], cleanType)]

\* C10 as amended: the registry keeps the rules in descending priority
\* whatever the order they were given in, and whenever a rule matches the
\* cleaned type string, performConversion does what resolveTemplateTypes
\* does on the transform of a highest-priority matching rule; no template
\* mapping, namespace mapping or registry lookup is applied to the input.
C10_PriorityOrder ==
  /\ \A i, j \in 1..Len(registry.customRules) :
       i < j => registry.customRules[i].priority
                  >= registry.customRules[j].priority
  /\ \A t \in ConvInputs :
       LET cleanType == cleanTypeString(t)
       IN BestRules(cleanType) # {} =>
            \E i \in BestRules(cleanType) :
              Outcome(performConversion(registry, conversionCache, t,
                                        MaxCallDepth))
                = Outcome(resolveTemplateTypes(registry, conversionCache,
                            RuleTransform(addedRules[i], cleanType),
                            MaxCallDepth))

\* C10 witness: the lower-priority rule was given first, both rules match
\* "T", and the conversion of "T" returned the higher-priority transform
C10_Witness ==
  /\ addedRules = <<ruleLow, ruleHigh>>
  /\ convCall = [input |-> <<"T">>, outcome |-> "returned", v |-> <<"H","i">>]
(***************************************************************************)
(* Documents and declarations                                              *)
(*                                                                         *)
(* A Document is what the parsers read of a Doxygen page: the declaration  *)
(* its header gives (decl, NoDecl when parseClassHeader finds none) and    *)
(* its anchors of class "el" (text and href).  A ParsedClass is a record   *)
(* of its full name and of the members that carry types.                   *)
(***************************************************************************)
NoDecl == [fullName |-> <<>>, isClass |-> FALSE]

ParsedClass(fullName, inheritance, properties, methods, signals, enums) ==
  [fullName |-> fullName, isClass |-> TRUE, inheritance |-> inheritance,
   properties |-> properties, methods |-> methods, slots |-> <<>>,
   signals |-> signals, enums |-> enums]

Method(returnType, parameters) ==
  [returnType |-> returnType, parameters |-> parameters]

Anchor(text, href) == [text |-> text, href |-> href]

Document(decl, anchors) == [decl |-> decl, anchors |-> anchors]

\* createMockDocument: a page with a title and no anchor
createMockDocument(cls) == Document(NoDecl, <<>>)

(***************************************************************************)
(* InMemoryParsingRepository                                               *)
(***************************************************************************)
\* the position of className in the classes map (insertion order), or 0
ClassIndex(classes, className) ==
  LET first(hits) ==
        IF hits = {} THEN 0 ELSE CHOOSE i \in hits : \A j \in hits : i <= j
  IN first({i \in 1..Len(classes) : classes[i].fullName = className})

\* the key uniqBy compares enums by
EnumKey(enumItem) ==
  enumItem.name \o <<":">> \o JoinWith(enumItem.values, <<"|">>)

RECURSIVE uniqBy(_, _)
\* uniqBy(allEnums, key): the first enum of every key, in order
uniqBy(allEnums, seen) ==
  IF allEnums = <<>> THEN <<>>
  ELSE IF EnumKey(allEnums[1]) \in seen THEN uniqBy(Tail(allEnums), seen)
  ELSE <<allEnums[1]>>
         \o uniqBy(Tail(allEnums), seen \cup {EnumKey(allEnums[1])})

\* InMemoryParsingRepository.consolidateEnums
consolidateEnums(classInfo, additionalEnums) ==
  [classInfo EXCEPT !.enums = uniqBy(@ \o additionalEnums, {})]

\* an addClass that stores the later declaration over the one it holds
addClass_Overwrite(repo, className, classInfo) ==
  LET add(at) ==
        IF at # 0
        THEN [repo EXCEPT
                !.duplicatesRemoved = @ + 1,
                !.classes[at] = consolidateEnums(classInfo, @.enums)]
        ELSE [repo EXCEPT
                !.classes = Append(@, consolidateEnums(classInfo, <<>>))]
  IN add(ClassIndex(repo.classes, className))

\* InMemoryParsingRepository.addClass
addClass(repo, className, classInfo) ==
  LET add(at) ==
        IF at # 0
        THEN [repo EXCEPT
                !.duplicatesRemoved = @ + 1,
                !.classes[at] = consolidateEnums(@, classInfo.enums)]
        ELSE [repo EXCEPT
                !.classes = Append(@, consolidateEnums(classInfo, <<>>))]
  IN add(ClassIndex(repo.classes, className))

\* an addNamespaceFile that adds nothing
addNamespaceFile_Dropped(repo, filePath) == repo

\* InMemoryParsingRepository.addNamespaceFile
addNamespaceFile(repo, filePath) ==
  [repo EXCEPT !.discoveredNamespaceFiles = @ \cup {filePath}]

(***************************************************************************)
(* TypeDependencyTracker                                                   *)
(***************************************************************************)
\* context.visitedTypes and context.pendingTypes: created empty, and no
\* method of the tracker or of the service adds to them
visitedTypes == {}

pendingTypes == {}

\* the tracker's own registry: new TypeRegistry(defaultTypeMappings)
isBuiltinType(typeName) == hasType(DefaultRegistry, cleanTypeForLookup(typeName))

\* null
NoDependency == [found |-> FALSE]

\* a TypeDependency: hasNamespace FALSE stands for namespace undefined,
\* linkedHref <<>> for linkedHref undefined
TypeDependency(typeName, hasNamespace, namespace, fullName) ==
  [found |-> TRUE, typeName |-> typeName, hasNamespace |-> hasNamespace,
   namespace |-> namespace, fullName |-> fullName, linkedHref |-> <<>>,
   sourceLocation |-> <<>>, usageType |-> "property"]

\* TypeDependencyTracker.parseTypeReference
parseTypeReference(typeString) ==
  LET split(baseType, parts) ==
        TypeDependency(parts[Len(parts)], Len(parts) > 1,
                       IF Len(parts) > 1
                       THEN JoinWith(SubSeq(parts, 1, Len(parts) - 1), sScope)
                       ELSE <<>>,
                       baseType)
      based(baseType) ==
        IF isBuiltinType(baseType) THEN NoDependency
        ELSE split(baseType, Split(baseType, sScope))
      cleaned(cleanType) ==
        IF isBuiltinType(cleanType) \/ isObjectLiteral(cleanType)
        THEN NoDependency
        ELSE based(IF EndsWith(cleanType, <<"[", "]">>)
                   THEN SubSeq(cleanType, 1, Len(cleanType) - 2)
                   ELSE cleanType)
  IN cleaned(cleanCppTypeString(typeString))

RECURSIVE TypeReferences(_, _, _)
\* one dependency for every type string of types that parseTypeReference
\* accepts, with the caller's sourceLocation and usageType
TypeReferences(types, sourceLocation, usageType) ==
  LET push(typeInfo) ==
        IF typeInfo.found
        THEN <<[typeInfo EXCEPT !.sourceLocation = sourceLocation,
                                !.usageType = usageType]>>
        ELSE <<>>
  IN IF types = <<>> THEN <<>>
     ELSE push(parseTypeReference(types[1]))
            \o TypeReferences(Tail(types), sourceLocation, usageType)

RECURSIVE extractInheritanceDependencies(_, _)
extractInheritanceDependencies(inheritance, sourceLocation) ==
  IF inheritance = <<>> THEN <<>>
  ELSE <<[TypeDependency(extractTypeName(inheritance[1]), FALSE, <<>>,
                         inheritance[1])
            EXCEPT !.sourceLocation = sourceLocation,
                   !.usageType = "inheritance"]>>
         \o extractInheritanceDependencies(Tail(inheritance), sourceLocation)

\* TypeDependencyTracker.extractMethodTypeDependencies
extractMethodTypeDependencies(method, sourceLocation) ==
  (IF method.returnType # <<>>
   THEN TypeReferences(<<method.returnType>>, sourceLocation, "method_return")
   ELSE <<>>)
  \o TypeReferences(method.parameters, sourceLocation, "method_param")

RECURSIVE extractMethodDependencies(_, _)
\* extractMethodDependencies and extractSlotDependencies
extractMethodDependencies(methods, sourceLocation) ==
  IF methods = <<>> THEN <<>>
  ELSE extractMethodTypeDependencies(methods[1], sourceLocation)
         \o extractMethodDependencies(Tail(methods), sourceLocation)

RECURSIVE extractSignalDependencies(_, _)
extractSignalDependencies(signals, sourceLocation) ==
  IF signals = <<>> THEN <<>>
  ELSE TypeReferences(signals[1].parameters, sourceLocation, "signal_param")
         \o extractSignalDependencies(Tail(signals), sourceLocation)
\* the attribute selectors of extractTypeLinksFromDocument
isTypeLinkHref(href) ==
  \/ Includes(href, <<"c","l","a","s","s","_">>)
  \/ Includes(href, <<"i","n","t","e","r","f","a","c","e","_">>)
  \/ Includes(href, <<"s","t","r","u","c","t","_">>)
  \/ Includes(href, <<"n","a","m","e","s","p","a","c","e","_">>)

RECURSIVE TypeLinks(_, _)
\* the loop of extractTypeLinksFromDocument over the selected anchors
TypeLinks(anchors, links) ==
  LET withShort(text, href, l) ==
        IF extractTypeName(text) # <<>> /\ extractTypeName(text) # text
        THEN MapSet(l, extractTypeName(text), href)
        ELSE l
      set(text, href) ==
        IF href # <<>> /\ text # <<>>
        THEN withShort(text, href, MapSet(links, normalizeTypeName(text), href))
        ELSE links
  IN IF anchors = <<>> THEN links
     ELSE TypeLinks(Tail(anchors),
                    IF isTypeLinkHref(anchors[1].href)
                    THEN set(Trim(anchors[1].text), anchors[1].href)
                    ELSE links)

\* TypeDependencyTracker.extractTypeLinksFromDocument
extractTypeLinksFromDocument(doc) == TypeLinks(doc.anchors, EmptyMap)

\* a look-up of the link under the full name only
LinkCandidates_FullNameOnly(dep) == <<dep.fullName>>

\* the candidates of enrichDependenciesWithLinks, in order, without the
\* empty ones (filter(Boolean))
LinkCandidates(dep) ==
  SelectSeq(<< dep.fullName,
               dep.typeName,
               sKWin \o sScope \o dep.typeName,
               (IF dep.hasNamespace THEN dep.namespace ELSE sUndefined)
                 \o sScope \o dep.typeName,
               ReplaceAll(dep.fullName, sDot, sScope),
               ReplaceAll(dep.fullName, sKWin \o sDot, sKWin \o sScope) >>,
            LAMBDA c : c # <<>>)

RECURSIVE FoundLink_LastWins(_, _)
\* the link of the last candidate that has one
FoundLink_LastWins(candidates, docLinks) ==
  IF candidates = <<>> THEN <<>>
  ELSE IF FoundLink_LastWins(Tail(candidates), docLinks) # <<>>
       THEN FoundLink_LastWins(Tail(candidates), docLinks)
  ELSE IF MapHas(docLinks, candidates[1]) /\ docLinks[candidates[1]] # <<>>
       THEN docLinks[candidates[1]]
  ELSE <<>>

RECURSIVE FoundLink(_, _)
\* the link of the first candidate that has one, <<>> when none has
FoundLink(candidates, docLinks) ==
  IF candidates = <<>> THEN <<>>
  ELSE IF MapHas(docLinks, candidates[1]) /\ docLinks[candidates[1]] # <<>>
       THEN docLinks[candidates[1]]
  ELSE FoundLink(Tail(candidates), docLinks)

RECURSIVE EnrichEach(_, _)
EnrichEach(dependencies, docLinks) ==
  LET link(dep, foundLink) ==
        IF foundLink # <<>> THEN [dep EXCEPT !.linkedHref = foundLink] ELSE dep
  IN IF dependencies = <<>> THEN <<>>
     ELSE <<link(dependencies[1],
                 FoundLink(LinkCandidates(dependencies[1]), docLinks))>>
            \o EnrichEach(Tail(dependencies), docLinks)

\* TypeDependencyTracker.enrichDependenciesWithLinks
enrichDependenciesWithLinks(dependencies, sourceDoc) ==
  EnrichEach(dependencies, extractTypeLinksFromDocument(sourceDoc))

\* TypeDependencyTracker.extractTypeDependencies
extractTypeDependencies(classInfo, sourceDoc, sourceLocation) ==
  enrichDependenciesWithLinks(
    extractInheritanceDependencies(classInfo.inheritance, sourceLocation)
      \o TypeReferences(classInfo.properties, sourceLocation, "property")
      \o extractMethodDependencies(classInfo.methods, sourceLocation)
      \o extractMethodDependencies(classInfo.slots, sourceLocation)
      \o extractSignalDependencies(classInfo.signals, sourceLocation),
    sourceDoc)

\* TypeDependencyTracker.getUnresolvedDependencies; parsed is the key set of
\* context.parsedClasses
getUnresolvedDependencies(parsed, dependencies) ==
  SelectSeq(dependencies,
            LAMBDA dep : /\ dep.fullName \notin parsed
                         /\ dep.fullName \notin visitedTypes
                         /\ ~isBuiltinType(dep.fullName)
                         /\ dep.linkedHref # <<>>)

\* TypeDependencyTracker.isCircularDependency
isCircularDependency(typeName) == typeName \in pendingTypes

\* TypeDependencyTracker.canResolveType
canResolveType(dependency) ==
  /\ dependency.linkedHref # <<>>
  /\ dependency.fullName \notin visitedTypes
  /\ ~isCircularDependency(dependency.fullName)
(***************************************************************************)
(* The documentation the parser reads                                      *)
(*                                                                         *)
(* A world gives the documents handed to the pipeline (roots), what the    *)
(* repository holds before (preloaded) and, for every file path, the ways  *)
(* reading it can end: a Document, or an error with its message.           *)
(***************************************************************************)
Loaded(doc) == [ok |-> TRUE, doc |-> doc, cause |-> <<>>]

Unreadable(cause) == [ok |-> FALSE, doc |-> Document(NoDecl, <<>>), cause |-> cause]

sNotFound == <<"N","o","t","F","o","u","n","d">>

sHtmlDir == <<"h","t","m","l","/">>

sDotHtml == <<".","h","t","m","l">>

\* the page of a class and the anchor that links to it
ClassHref(tag) == <<"c","l","a","s","s","_">> \o tag \o sDotHtml

ClassPath(tag) == sHtmlDir \o ClassHref(tag)

\* a class whose properties have the given types, on a page with the given
\* anchors
ClassPage(fullName, types, anchors) ==
  Loaded(Document(ParsedClass(fullName, <<>>, types, <<>>, <<>>, <<>>), anchors))

\* A references B and B references A, each with a link to the other
CycleWorld ==
  [roots |-> <<ClassPath(<<"a">>)>>,
   preloaded |-> <<>>,
   files |->
     (ClassPath(<<"a">>) :> {ClassPage(<<"A">>, <<<<"B">>>>, <<Anchor(<<"B">>, ClassHref(<<"b">>))>>)})
     @@ (ClassPath(<<"b">>) :> {ClassPage(<<"B">>, <<<<"A">>>>, <<Anchor(<<"A">>, ClassHref(<<"a">>))>>)})]

\* the most declarations of the chain
MaxChain == 4

\* the decimal digits of n < 100
Dec(n) ==
  LET digit(d) == <<"0","1","2","3","4","5","6","7","8","9">>[d + 1]
  IN IF n < 10 THEN <<digit(n)>> ELSE <<digit(n \div 10), digit(n % 10)>>

\* D1 -> D2 -> ... : every declaration references the next one, with a link;
\* the page of a declaration may also be unreadable
ChainWorld ==
  [roots |-> <<ClassPath(<<"d","1">>)>>,
   preloaded |-> <<>>,
   files |->
     [p \in {ClassPath(<<"d">> \o Dec(k)) : k \in 1..MaxChain} |->
        LET k == CHOOSE i \in 1..MaxChain : p = ClassPath(<<"d">> \o Dec(i))
        IN {ClassPage(<<"D">> \o Dec(k),
                      IF k < MaxChain THEN <<<<"D">> \o Dec(k + 1)>> ELSE <<>>,
                      IF k < MaxChain
                      THEN <<Anchor(<<"D">> \o Dec(k + 1),
                                    ClassHref(<<"d">> \o Dec(k + 1)))>>
                      ELSE <<>>)}
           \cup (IF k > 1 THEN {Unreadable(sNotFound)} ELSE {})]]

\* R references X, Y and int; each of the two pages is read or not, and the
\* page of Y may hold no declaration
SiblingWorld ==
  [roots |-> <<ClassPath(<<"r">>)>>,
   preloaded |-> <<>>,
   files |->
     (ClassPath(<<"r">>) :>
        {ClassPage(<<"R">>, <<<<"X">>, <<"Y">>, <<"i","n","t">>>>,
                   <<Anchor(<<"X">>, ClassHref(<<"x">>)),
                     Anchor(<<"Y">>, ClassHref(<<"y">>))>>)})
     @@ (ClassPath(<<"x">>) :> {ClassPage(<<"X">>, <<>>, <<>>), Unreadable(sNotFound)})
     @@ (ClassPath(<<"y">>) :> {ClassPage(<<"Y">>, <<>>, <<>>), Unreadable(sNotFound),
                              Loaded(Document(NoDecl, <<>>))})]

\* R references KWin::Mode, linked to a namespace page, and Z, linked to a
\* page whose name holds the word circular and that cannot be read
OddLinksWorld ==
  [roots |-> <<ClassPath(<<"r">>), ClassPath(<<"r">>)>>,
   preloaded |-> <<>>,
   files |->
     (ClassPath(<<"r">>) :>
        {ClassPage(<<"R">>, <<<<"K","W","i","n",":",":","M","o","d","e">>, <<"Z">>>>,
                   <<Anchor(<<"M","o","d","e">>, <<"n","a","m","e","s","p","a","c","e","_","k",".","h","t","m","l">>),
                     Anchor(<<"Z">>, ClassHref(<<"c","i","r","c","u","l","a","r">>))>>)})
     @@ (sHtmlDir \o <<"n","a","m","e","s","p","a","c","e","_","k",".","h","t","m","l">> :> {Loaded(Document(NoDecl, <<>>))})
     @@ (ClassPath(<<"c","i","r","c","u","l","a","r">>) :> {Unreadable(sNotFound)})]

\* R uses Foo::Baz in a property, as a return type and as a parameter; its
\* page links the text Baz to the page of the declaration Foo::Baz
FooBazWorld ==
  [roots |-> <<ClassPath(<<"r">>)>>,
   preloaded |-> <<>>,
   files |->
     (ClassPath(<<"r">>) :>
        {Loaded(Document(
           ParsedClass(<<"R">>, <<>>, <<<<"F","o","o",":",":","B","a","z">>, <<"b","o","o","l">>>>,
                       <<Method(<<"F","o","o",":",":","B","a","z">>, <<<<"c","o","n","s","t"," ","F","o","o",":",":","B","a","z","&">>>>)>>,
                       <<>>, <<>>),
           <<Anchor(<<"B","a","z">>, ClassHref(<<"b","a","z">>))>>))})
     @@ (ClassPath(<<"b","a","z">>) :>
           {ClassPage(<<"F","o","o",":",":","B","a","z">>, <<<<"i","n","t">>>>, <<>>), Unreadable(sNotFound)})]

(***************************************************************************)
(* DocumentLoader and DocumentParsingService                               *)
(***************************************************************************)
\* DocumentParsingService.isNamespaceDocument
isNamespaceDocument(source) ==
  Includes(source, <<"n","a","m","e","s","p","a","c","e","_">>) \/ Includes(source, <<"/","n","a","m","e","s","p","a","c","e">>)

\* DocumentParsingService.parseDocument: a ParsedDocument; the html parser
\* gives the declaration of the page, null (NoDecl) when it has none
parseDocument(doc, source) ==
  [ok |-> TRUE,
   classInfo |-> IF isNamespaceDocument(source) THEN NoDecl ELSE doc.decl,
   source |-> source,
   isNamespace |-> isNamespaceDocument(source),
   sourceDocument |-> doc,
   message |-> <<>>]

\* a rejection with the message of its Error
Rejected(message) ==
  [ok |-> FALSE, classInfo |-> NoDecl, source |-> <<>>, isNamespace |-> FALSE,
   sourceDocument |-> Document(NoDecl, <<>>), message |-> message]

\* Deno.readTextFile and the DOM parser: the ways reading filePath can end
ReadFile(w, filePath) ==
  IF filePath \in DOMAIN w.files THEN w.files[filePath]
  ELSE {Unreadable(sNotFound)}

\* DocumentParsingService.parseFromFile over DocumentLoader.loadFromFile:
\* the ways the returned promise can settle
parseFromFile(w, filePath) ==
  {IF o.ok THEN parseDocument(o.doc, filePath)
   ELSE Rejected(<<"F","a","i","l","e","d"," ","t","o"," ","r","e","a","d"," ","f","i","l","e"," ">> \o filePath \o <<":"," ">> \o o.cause) :
     o \in ReadFile(w, filePath)}

(***************************************************************************)
(* TypeDependencyService                                                   *)
(*                                                                         *)
(* The operators below work on a record s of the fields of the service,    *)
(* the repository it was given and the parsed classes of its tracker.  A   *)
(* promise of pendingResolutions is the path it reads (href) and whether   *)
(* it has settled.                                                         *)
(***************************************************************************)
maxIterations == 50

\* resolveTypeDependency up to its first await, and the pendingResolutions
\* entry that receives the promise it returns
resolveTypeDependency(s, dependency) ==
  LET entry(s1, href, settled) ==
        [s1 EXCEPT !.pendingResolutions =
                     MapSet(@, dependency.fullName,
                            [href |-> href, settled |-> settled])]
      located(fullPath) ==
        entry(IF Includes(fullPath, <<"n","a","m","e","s","p","a","c","e","_">>)
                 /\ EndsWith(fullPath, sDotHtml)
              THEN [s EXCEPT !.repository = addNamespaceFile(@, fullPath)]
              ELSE s,
              fullPath, FALSE)
      withUrl(sourceUrl) ==
        IF sourceUrl = <<>>
        THEN entry([s EXCEPT !.unresolvedTypesCount = @ + 1], <<>>, TRUE)
        ELSE located(IF StartsAt(sourceUrl, 1, sHtmlDir) THEN sourceUrl
                     ELSE sHtmlDir \o sourceUrl)
  IN IF dependency.fullName \in s.circularDependencies
     THEN entry(s, <<>>, TRUE)
     ELSE withUrl(IF dependency.linkedHref # <<>> THEN dependency.linkedHref
                  ELSE dependency.sourceLocation)

\* a resolveTypeDependency without its catch: a read that fails ends the
\* whole round, nothing is counted
resolveTypeDependencyResume_Uncaught(s, name, parsedDocument) ==
  IF ~parsedDocument.ok
  THEN [s EXCEPT !.pendingResolutions =
                   [n \in DOMAIN @ |-> [@[n] EXCEPT !.settled = TRUE]]]
  ELSE [s EXCEPT !.pendingResolutions[name].settled = TRUE,
                 !.unresolvedTypesCount = @ + 1]

\* resolveTypeDependency after its await: parsedDocument is how the promise
\* of parseFromFile settled
resolveTypeDependencyResume(s, name, parsedDocument) ==
  LET settled == [s EXCEPT !.pendingResolutions[name].settled = TRUE]
  IN IF ~parsedDocument.ok
     THEN [settled EXCEPT
             !.unresolvedTypesCount = @ + 1,
             !.circularDependencies =
                IF Includes(parsedDocument.message, <<"c","i","r","c","u","l","a","r">>)
                THEN @ \cup {name} ELSE @]
     ELSE IF parsedDocument.classInfo.isClass
     THEN [settled EXCEPT
             !.sourceDocuments =
                MapSet(@, parsedDocument.classInfo.fullName,
                       parsedDocument.sourceDocument),
             !.repository =
                addClass(@, parsedDocument.classInfo.fullName,
                         parsedDocument.classInfo),
             !.parsedClasses = @ \cup {parsedDocument.classInfo.fullName},
             !.resolvedTypesCount = @ + 1]
     ELSE [settled EXCEPT !.unresolvedTypesCount = @ + 1]

RECURSIVE ScheduleEach(_, _)
\* the scheduling loop over unresolvedDeps
ScheduleEach(s, unresolvedDeps) ==
  IF unresolvedDeps = <<>> THEN s
  ELSE ScheduleEach(
         IF /\ ~MapHas(s.pendingResolutions, unresolvedDeps[1].fullName)
            /\ unresolvedDeps[1].linkedHref # <<>>
         THEN resolveTypeDependency(s, unresolvedDeps[1])
         ELSE s,
         Tail(unresolvedDeps))

\* TypeDependencyService.extractDependenciesFromDocument, given a repository
extractDependenciesFromDocument(s, parsedDocument) ==
  IF ~parsedDocument.classInfo.isClass THEN s
  ELSE ScheduleEach(
         [s EXCEPT !.sourceDocuments =
                     MapSet(@, parsedDocument.classInfo.fullName,
                            parsedDocument.sourceDocument)],
         getUnresolvedDependencies(
           s.parsedClasses,
           extractTypeDependencies(parsedDocument.classInfo,
                                   parsedDocument.sourceDocument,
                                   parsedDocument.source)))

\* TypeDependencyService.shouldResolveType
shouldResolveType(s, dependency) ==
  /\ canResolveType(dependency)
  /\ dependency.fullName \notin s.circularDependencies

\* TypeDependencyService.getStats
getStats(s) ==
  [resolvedTypes |-> s.resolvedTypesCount,
   unresolvedTypes |-> s.unresolvedTypesCount,
   circulardependencies |-> Cardinality(s.circularDependencies),
   maxDepth |-> s.maxDepthReached]

UpperSeq ==
  <<"A","B","C","D","E","F","G","H","I","J","K","L","M",
    "N","O","P","Q","R","S","T","U","V","W","X","Y","Z">>

LowerSeq ==
  <<"a","b","c","d","e","f","g","h","i","j","k","l","m",
    "n","o","p","q","r","s","t","u","v","w","x","y","z">>

RECURSIVE toLowerCase(_)
\* String.prototype.toLowerCase
toLowerCase(str) ==
  IF str = <<>> THEN <<>>
  ELSE <<IF str[1] \in UpperLetters
         THEN LowerSeq[CHOOSE k \in 1..26 : UpperSeq[k] = str[1]]
         ELSE str[1]>>
         \o toLowerCase(Tail(str))

RECURSIVE CamelToSnake(_)
\* str.replace(/([a-z])([A-Z])/g, "$1_$2")
CamelToSnake(str) ==
  IF Len(str) < 2 THEN str
  ELSE IF str[1] \in LowerLetters /\ str[2] \in UpperLetters
       THEN <<str[1], "_", str[2]>> \o CamelToSnake(Drop(str, 3))
  ELSE <<str[1]>> \o CamelToSnake(Tail(str))

\* str.replace(/^prefix/, "")
StripPrefix(str, prefix) ==
  IF StartsAt(str, 1, prefix) THEN Drop(str, Len(prefix) + 1) ELSE str

\* TypeDependencyService.getHtmlPathForClass
getHtmlPathForClass(className) ==
  sHtmlDir \o <<"c","l","a","s","s","_","k","_","w","i","n","_","1","_","1","_">>
    \o toLowerCase(CamelToSnake(toLowerCase(
         StripPrefix(StripPrefix(className, sKWin \o sScope), sKWin \o sDot))))
    \o sDotHtml

\* one class of the map of discoverNewDependencies: the ways it can end,
\* each the service after it and the dependencies it returns
DiscoverClass(w, s, cls) ==
  LET marked == [s EXCEPT !.processedClasses = @ \cup {cls.fullName}]
      kept(dependencies) == [s |-> marked, dependencies |-> dependencies]
      reparsed(dependencies, realDoc) ==
        IF realDoc.ok
        THEN [s |-> [marked EXCEPT !.sourceDocuments =
                                     MapSet(@, cls.fullName,
                                            realDoc.sourceDocument)],
              dependencies |->
                extractTypeDependencies(cls, realDoc.sourceDocument,
                                        getHtmlPathForClass(cls.fullName))]
        ELSE kept(dependencies)
      scanned(dependencies) ==
        IF /\ ~MapHas(s.sourceDocuments, cls.fullName)
           /\ \E i \in 1..Len(dependencies) : dependencies[i].linkedHref = <<>>
        THEN {reparsed(dependencies, realDoc) :
                realDoc \in parseFromFile(w, getHtmlPathForClass(cls.fullName))}
        ELSE {kept(dependencies)}
  IN IF cls.fullName \in s.processedClasses
     THEN {[s |-> s, dependencies |-> <<>>]}
     ELSE scanned(extractTypeDependencies(
                    cls,
                    IF MapHas(s.sourceDocuments, cls.fullName)
                    THEN s.sourceDocuments[cls.fullName]
                    ELSE createMockDocument(cls),
                    cls.fullName))

RECURSIVE DiscoverEach(_, _, _, _)
\* Promise.all(allClasses.map(...)) and flat(): the ways the scan can end
DiscoverEach(w, s, allClasses, flatDependencies) ==
  IF allClasses = <<>> THEN {[s |-> s, dependencies |-> flatDependencies]}
  ELSE UNION {DiscoverEach(w, r.s, Tail(allClasses),
                           flatDependencies \o r.dependencies) :
                r \in DiscoverClass(w, s, allClasses[1])}

RECURSIVE GroupKeys(_, _)
\* the keys of groupBy(flatDependencies, "fullName"), in order
GroupKeys(flatDependencies, seen) ==
  IF flatDependencies = <<>> THEN <<>>
  ELSE IF flatDependencies[1].fullName \in seen
       THEN GroupKeys(Tail(flatDependencies), seen)
  ELSE <<flatDependencies[1].fullName>>
         \o GroupKeys(Tail(flatDependencies),
                      seen \cup {flatDependencies[1].fullName})

RECURSIVE ScheduleGroups(_, _, _)
\* the loop of discoverNewDependencies over the groups
ScheduleGroups(s, flatDependencies, typeNames) ==
  LET schedule(dependencies) ==
        IF /\ ~MapHas(s.pendingResolutions, typeNames[1])
           /\ shouldResolveType(s, dependencies[1])
        THEN ScheduleEach(s, getUnresolvedDependencies(s.parsedClasses,
                                                       dependencies))
        ELSE s
  IN IF typeNames = <<>> THEN s
     ELSE ScheduleGroups(
            schedule(SelectSeq(flatDependencies,
                               LAMBDA dep : dep.fullName = typeNames[1])),
            flatDependencies, Tail(typeNames))

\* TypeDependencyService.discoverNewDependencies: the ways it can end
discoverNewDependencies(w, s) ==
  {ScheduleGroups(r.s, r.dependencies, GroupKeys(r.dependencies, {})) :
     r \in DiscoverEach(w, s, s.repository.classes, <<>>)}

\* the repository holds KWin::Tile, added without its page; R references X
PreloadedWorld ==
  [roots |-> <<ClassPath(<<"r">>)>>,
   preloaded |-> <<ParsedClass(<<"K","W","i","n",":",":","T","i","l","e">>, <<>>, <<<<"P">>>>, <<>>, <<>>, <<>>)>>,
   files |->
     (ClassPath(<<"r">>) :> {ClassPage(<<"R">>, <<<<"X">>>>, <<Anchor(<<"X">>, ClassHref(<<"x">>))>>)})
     @@ (ClassPath(<<"x">>) :> {ClassPage(<<"X">>, <<>>, <<>>)})
     @@ (ClassPath(<<"k","_","w","i","n","_","1","_","1","_","t","i","l","e">>) :>
           {ClassPage(<<"K","W","i","n",":",":","T","i","l","e">>, <<<<"P">>>>, <<Anchor(<<"P">>, ClassHref(<<"p">>))>>),
            Unreadable(sNotFound)})
     @@ (ClassPath(<<"p">>) :> {ClassPage(<<"P">>, <<>>, <<>>)})]

\* the levels of the layered world: enough for one round more than the cap
CapLevels == maxIterations + 2

\* the declarations of level k: one at level 0 and at odd levels, two at the
\* other levels
LevelTags(k) == IF k = 0 \/ k % 2 = 1 THEN <<"a">> ELSE <<"a", "b">>

LevelName(k, tag) == <<"L">> \o Dec(k) \o <<tag>>

LevelPath(k, tag) == ClassPath(<<"l">> \o Dec(k) \o <<tag>>)

\* the declaration "a" of level k references every name of level k+1, with a
\* link; only the pages of the names "a" can be read: the pending set has
\* one entry and two entries in turn
LayeredWorld ==
  [roots |-> <<LevelPath(0, "a")>>,
   preloaded |-> <<>>,
   files |->
     [p \in {LevelPath(k, "a") : k \in 0..CapLevels} |->
        LET next(k) == IF k = CapLevels THEN <<>> ELSE LevelTags(k + 1)
            page(k, tags) ==
              ClassPage(LevelName(k, "a"),
                        [j \in 1..Len(tags) |-> LevelName(k + 1, tags[j])],
                        [j \in 1..Len(tags) |->
                           Anchor(LevelName(k + 1, tags[j]),
                                  ClassHref(<<"l">> \o Dec(k + 1)
                                              \o <<tags[j]>>))])
            pageAt(k) == page(k, next(k))
        IN {pageAt(CHOOSE k \in 0..CapLevels : p = LevelPath(k, "a"))}]]

Worlds ==
  <<CycleWorld, ChainWorld, SiblingWorld, OddLinksWorld, FooBazWorld,
    PreloadedWorld, LayeredWorld>>

\* the world of this behaviour
TheWorld == Worlds[world]
(***************************************************************************)
(* The dependency resolution of a parser: DependencyResolutionStage for    *)
(* each document handed to it, and the rounds of resolveAllDependencies.   *)
(* pc is "idle" before the first session, "awaiting" while a session waits *)
(* on Promise.allSettled, "returned" when resolveAllDependencies returned. *)
(***************************************************************************)
\* the fields of the service, its repository and its tracker, as one record
Cur ==
  [repository |-> repository, parsedClasses |-> parsedClasses,
   pendingResolutions |-> pendingResolutions,
   processedClasses |-> processedClasses,
   circularDependencies |-> circularDependencies,
   sourceDocuments |-> sourceDocuments, maxDepthReached |-> maxDepthReached,
   resolvedTypesCount |-> resolvedTypesCount,
   unresolvedTypesCount |-> unresolvedTypesCount]

\* the fields after a step that leaves them as the record s
Install(s) ==
  /\ repository' = s.repository
  /\ parsedClasses' = s.parsedClasses
  /\ pendingResolutions' = s.pendingResolutions
  /\ processedClasses' = s.processedClasses
  /\ circularDependencies' = s.circularDependencies
  /\ sourceDocuments' = s.sourceDocuments
  /\ maxDepthReached' = s.maxDepthReached
  /\ resolvedTypesCount' = s.resolvedTypesCount
  /\ unresolvedTypesCount' = s.unresolvedTypesCount

LoopCondition_NoCap(size, i) == size > 0

\* the condition of the while loop of resolveAllDependencies
LoopCondition(size, i) == size > 0 /\ i < maxIterations

\* the loop is left with iteration i: the warning, and the return
Return(i) ==
  /\ pc' = "returned"
  /\ iteration' = i
  /\ maxIterationsWarned' = (i >= maxIterations)
  /\ UNCHANGED pendingCount

\* the head of the loop with iteration i: the next round starts and waits
\* for the promises that are pending, or the loop is left
LoopHead(s, i) ==
  IF LoopCondition(Cardinality(DOMAIN s.pendingResolutions), i)
  THEN /\ pc' = "awaiting"
       /\ iteration' = i
       /\ pendingCount' = Cardinality(DOMAIN s.pendingResolutions)
       /\ UNCHANGED maxIterationsWarned
  ELSE Return(i)

\* the next document is handed to the parser: DocumentParsingStage parses it
\* and adds its class to the repository, DependencyResolutionStage calls
\* extractDependenciesFromDocument and resolveAllDependencies, which runs to
\* its first await
ProcessDocument ==
  /\ pc \in {"idle", "returned"}
  /\ session < Len(TheWorld.roots)
  /\ \E parsedDocument \in
          {d \in parseFromFile(TheWorld, TheWorld.roots[session + 1]) : d.ok} :
       LET resolveAllDependencies(s) == Install(s) /\ LoopHead(s, 0)
       IN resolveAllDependencies(
            extractDependenciesFromDocument(
              IF parsedDocument.classInfo.isClass
              THEN [Cur EXCEPT !.repository =
                      addClass(@, parsedDocument.classInfo.fullName,
                               parsedDocument.classInfo)]
              ELSE Cur,
              parsedDocument))
  /\ session' = session + 1
  /\ UNCHANGED <<world, lastSettled, mapperVars, callVars>>

\* how a promise of parseFromFile settled, for lastSettled
SettledAs(name, parsedDocument) ==
  [name |-> name,
   outcome |-> IF ~parsedDocument.ok THEN "rejected"
               ELSE IF parsedDocument.classInfo.isClass THEN "class"
               ELSE "empty",
   fullName |-> parsedDocument.classInfo.fullName]

\* the read of a pending resolution ends and resolveTypeDependency runs to
\* its end
Settle ==
  /\ \E name \in DOMAIN pendingResolutions :
       /\ ~pendingResolutions[name].settled
       /\ \E parsedDocument \in
               parseFromFile(TheWorld, pendingResolutions[name].href) :
            /\ Install(resolveTypeDependencyResume(Cur, name, parsedDocument))
            /\ lastSettled' = SettledAs(name, parsedDocument)
  /\ UNCHANGED <<world, session, pc, iteration, pendingCount,
                 maxIterationsWarned, mapperVars, callVars>>

\* Promise.allSettled is fulfilled: the rest of the round, up to the next
\* await or to the return of resolveAllDependencies
ContinueRound ==
  /\ pc = "awaiting"
  /\ \A name \in DOMAIN pendingResolutions : pendingResolutions[name].settled
  /\ \E s \in discoverNewDependencies(
                TheWorld, [Cur EXCEPT !.pendingResolutions = EmptyMap]) :
       IF Cardinality(DOMAIN s.pendingResolutions) = pendingCount
       THEN Install(s) /\ Return(iteration)
       ELSE /\ Install([s EXCEPT !.maxDepthReached = Max(@, iteration + 1)])
            /\ LoopHead(s, iteration + 1)
  /\ UNCHANGED <<world, session, lastSettled, mapperVars, callVars>>

Init ==
  /\ registry = DefaultRegistry
  /\ conversionCache = EmptyMap
  /\ convCall = NoCall
  /\ addedRules = <<>>
  /\ mutations = 0
  /\ world \in 1..Len(Worlds)
  /\ NewParser(TheWorld.preloaded)

Next == ProcessDocument \/ Settle \/ ContinueRound

Spec == Init /\ [][Next]_vars

\* the step that follows a fulfilled Promise.allSettled, by what it does to
\* pc and iteration: in Spec these are the steps of ContinueRound, which
\* either returns or counts one more iteration
Resume ==
  /\ pc = "awaiting"
  /\ \A name \in DOMAIN pendingResolutions : pendingResolutions[name].settled
  /\ pc' \in {"awaiting", "returned"}
  /\ iteration' \in {iteration, iteration + 1}

\* every read ends, and a fulfilled Promise.allSettled resumes the session
FairSpec == Spec /\ WF_vars(Settle) /\ WF_<<pc, iteration>>(Resume)
(***************************************************************************)
(* Properties of the dependency resolution                                 *)
(***************************************************************************)
\* the names of the classes the repository holds
ClassNames == {repository.classes[i].fullName : i \in DOMAIN repository.classes}

\* C2: a resolution session always completes.  With every read ending
\* (FairSpec), a session that waits on its pending resolutions comes to the
\* return of resolveAllDependencies; a round is only entered while fewer than
\* 50 iterations were counted, and the count never passes 50.  No step of
\* the loop raises: Promise.allSettled never rejects, and
\* resolveTypeDependency and the re-parse of discoverNewDependencies catch
\* what their reads raise.
C2_SessionCompletes ==
  /\ [](iteration <= maxIterations)
  /\ [](pc = "awaiting" => iteration < maxIterations)
  /\ [](pc = "awaiting" => <>(pc = "returned"))

\* a session that stopped at the cap
C2_Witness ==
  pc = "returned" /\ iteration = maxIterations /\ maxIterationsWarned

\* C3: the loop of resolveAllDependencies is left only when the re-scan of
\* the round scheduled nothing new or when 50 rounds have run.  When a
\* session returns, pendingResolutions holds what the last re-scan scheduled.
C3_StopsOnlyWhenNothingNew ==
  pc = "returned" =>
    (pendingResolutions = EmptyMap \/ iteration >= maxIterations)

\* C4: with A referencing B and B referencing A, a session started from A
\* returns with a circular-reference count of exactly 1 in getStats().
C4_CycleCountedOnce ==
  (TheWorld = CycleWorld /\ pc = "returned") =>
    getStats(Cur).circulardependencies = 1

\* C5: on the chain D1 -> D2 -> D3 -> ..., while every page is read and the
\* re-scan of the last round scheduled a new dependency, the session only
\* returns after exactly 50 rounds, with the warning of the cap.
C5_ChainRunsToCap ==
  (/\ TheWorld = ChainWorld
   /\ pc = "returned"
   /\ unresolvedTypesCount = 0
   /\ pendingResolutions # EmptyMap) =>
    (iteration = maxIterations /\ maxIterationsWarned)

\* the step settles the pending resolution of name
SettleStep(name) ==
  /\ name \in DOMAIN pendingResolutions
  /\ ~pendingResolutions[name].settled
  /\ name \in DOMAIN pendingResolutions'
  /\ pendingResolutions'[name].settled

\* C6: settle-all isolation.  When the read of one pending dependency ends,
\* the session stays where it is and every other pending resolution is left
\* as it was; a read that failed, or gave no declaration, adds one to
\* unresolvedTypes and changes neither resolvedTypes nor the repository; a
\* read that gave a declaration adds one to resolvedTypes and the
\* declaration is in the repository, whatever its siblings did.
C6_SettleAllIsolation ==
  [][\A name \in DOMAIN pendingResolutions :
       SettleStep(name) =>
         /\ pc' = pc
         /\ lastSettled'.name = name
         /\ \A sibling \in DOMAIN pendingResolutions \ {name} :
              /\ sibling \in DOMAIN pendingResolutions'
              /\ pendingResolutions'[sibling] = pendingResolutions[sibling]
         /\ lastSettled'.outcome \in {"rejected", "empty"} =>
              /\ unresolvedTypesCount' = unresolvedTypesCount + 1
              /\ resolvedTypesCount' = resolvedTypesCount
              /\ repository' = repository
         /\ lastSettled'.outcome = "class" =>
              /\ resolvedTypesCount' = resolvedTypesCount + 1
              /\ unresolvedTypesCount' = unresolvedTypesCount
              /\ lastSettled'.fullName \in ClassNames'
              /\ ClassNames \subseteq ClassNames']_vars

\* a round in which the read of one sibling failed and the other sibling
\* was merged
C6_Witness ==
  /\ TheWorld = SiblingWorld
  /\ pc = "awaiting"
  /\ \A name \in DOMAIN pendingResolutions : pendingResolutions[name].settled
  /\ lastSettled.outcome = "rejected"
  /\ unresolvedTypesCount = 1
  /\ resolvedTypesCount = 1
  /\ ClassNames = {<<"R">>, IF lastSettled.name = <<"X">> THEN <<"Y">> ELSE <<"X">>}

\* C7: R uses Foo::Baz in three members and its page links the text Baz.
\* Until a read ends, exactly one dependency is pending, Foo::Baz; once the
\* read of the first round gave the declaration Foo::Baz, resolvedTypes is
\* 1, the repository holds Foo::Baz, no read is pending any more, and the
\* session returns with nothing scheduled again.
C7_FooBazResolvedOnce ==
  TheWorld = FooBazWorld =>
    /\ (session = 1 /\ lastSettled = NoSettle) =>
         /\ DOMAIN pendingResolutions = {<<"F","o","o",":",":","B","a","z">>}
         /\ ~pendingResolutions[<<"F","o","o",":",":","B","a","z">>].settled
         /\ resolvedTypesCount = 0
    /\ (lastSettled.outcome = "class" /\ unresolvedTypesCount = 0) =>
         /\ lastSettled.fullName = <<"F","o","o",":",":","B","a","z">>
         /\ resolvedTypesCount = 1
         /\ <<"F","o","o",":",":","B","a","z">> \in ClassNames
         /\ \A name \in DOMAIN pendingResolutions :
              pendingResolutions[name].settled
         /\ pc = "returned" => pendingResolutions = EmptyMap

\* the session returned after the round that read Foo::Baz
C7_Witness ==
  /\ TheWorld = FooBazWorld
  /\ pc = "returned"
  /\ lastSettled.outcome = "class"
  /\ unresolvedTypesCount = 0
  /\ <<"F","o","o",":",":","B","a","z">> \in ClassNames
(***************************************************************************)
(* A converter over a registry that was built once: createTypeSystem,      *)
(* then conversions by a converter that holds no entries                   *)
(***************************************************************************)
ruleFoo == Rule("foo", 7, "prefix", <<"F","o","o">>, "const", <<"G","a","d","g","e","t">>)

\* the registry of the scenario configuration
ScenarioRegistry == loadFromConfig(DefaultRegistry, scenarioConfig)

\* the registries the converter is built over
RegistryPool ==
  { DefaultRegistry,
    ScenarioRegistry,
    addCustomRule(ScenarioRegistry, ruleFoo),
    addCustomRule(DefaultRegistry, ruleMid),
    registerType(DefaultRegistry, TypeDef(<<"T">>, <<"X">>, <<>>)) }

\* type strings handed to the converter
TypeStrings ==
  ConvInputs \cup
  { <<"C","o","n","t","a","i","n","e","r","<","i","n","t",">">>, <<"C","o","n","t","a","i","n","e","r","<","F","o","o","<","i","n","t",">",">">>, <<"C","o","n","t","a","i","n","e","r","<","T",">">>,
    <<"s","t","d",":",":","T">>, <<"K","W","i","n",":",":","T">>, <<"Q","t",":",":","T">>, <<"A",":",":","B",":",":","T">>, <<"c","o","n","s","t"," ","F","o","o",":",":","W","i","d","g","e","t","&">>,
    <<"Q","L","i","s","t","<","i","n","t",">">>, <<"Q","L","i","s","t","<","F","o","o",":",":","W","i","d","g","e","t",">">>, <<"Q","S","e","t","<","s","t","d",":",":","T",">">>,
    <<"Q","M","a","p","<","Q","S","t","r","i","n","g",","," ","i","n","t",">">>, <<"Q","L","i","s","t","<","Q","M","a","p","<","Q","S","t","r","i","n","g",","," ","i","n","t",">",">">>,
    <<"s","t","d",":",":","v","e","c","t","o","r","<","i","n","t",">">>, <<"b","o","o","l">>, <<"Q","S","t","r","i","n","g">>,
    <<"s","t","d",":",":","m","a","p","<","Q","S","t","r","i","n","g",","," ","i","n","t",">">>, <<"s","t","d",":",":","s","e","t","<","b","o","o","l",">">>,
    <<"s","t","d",":",":","v","e","c","t","o","r","<","F","o","o",":",":","W","i","d","g","e","t",">">> }

\* createTypeSystem: a registry of the pool and a converter with no entries
ConverterInit ==
  /\ registry \in RegistryPool
  /\ conversionCache = EmptyMap
  /\ convCall = NoCall
  /\ addedRules = <<>>
  /\ mutations = 0
  /\ world = 0
  /\ NewParser(<<>>)

\* TypeConverter.cppToTypeScript(cppType) on the converter with no entries
ConvertFresh ==
  /\ conversionCache = EmptyMap
  /\ \E cppType \in TypeStrings :
       LET called(r) ==
             /\ conversionCache' = r.cache
             /\ convCall' = [input |-> cppType,
                             outcome |-> IF r.ok THEN "returned" ELSE "thrown",
                             v |-> r.v]
       IN called(cppToTypeScript(registry, EmptyMap, cppType, MaxCallDepth))
  /\ UNCHANGED <<registry, addedRules, mutations, resolverVars, callVars>>

ConverterNext == ConvertFresh \/ ClearCache

SpecConverter == ConverterInit /\ [][ConverterNext]_vars

(***************************************************************************)
(* Properties of the converter (SpecConverter)                             *)
(***************************************************************************)
sContainerOfInt == <<"C","o","n","t","a","i","n","e","r","<","i","n","t",">">>

containerRule == TemplateMapping(<<"^","C","o","n","t","a","i","n","e","r","<","(",".","+",")",">","$">>, <<"$","1","[","]">>)

RECURSIVE Substituted(_, _, _)
\* acc with the placeholder of each argument, from index on, replaced by
\* what a converter with no entries returns for the argument
Substituted(acc, names, index) ==
  IF names = <<>> THEN acc
  ELSE Substituted(ReplaceAll(acc, Placeholder(index),
                              FreshConvert(names[1]).v),
                   Tail(names), index + 1)

\* C11: with a registry that holds int -> number and the rule
\* ^Container<(.+)>$ -> $1[], the call for "Container<int>" returns
\* "number[]"; and every call for a type with generic arguments that no
\* custom rule takes and that a generic-substitution rule matches returns the
\* replacement of the first matching rule with each $n replaced by the
\* converted n-th argument.
C11_PlaceholdersSubstituted ==
  /\ ( /\ convCall.outcome # "none"
       /\ convCall.input = sContainerOfInt
       /\ \E i \in 1..Len(registry.templateMappings) :
            registry.templateMappings[i] = containerRule
       /\ getType(registry, <<"i","n","t">>).found
       /\ getType(registry, <<"i","n","t">>).def.tsType = <<"n","u","m","b","e","r">> )
     => /\ convCall.outcome = "returned"
        /\ convCall.v = <<"n","u","m","b","e","r","[","]">>
  /\ convCall.outcome # "none" =>
       LET expected(parsed) ==
             Substituted(
               registry.templateMappings[
                 FirstMatchingTemplate(registry, parsed)].replacement,
               ArgNames(parsed.templateArgs), 1)
           holds(cleanType) ==
             ( /\ FirstMatchingRule(registry, cleanType) = 0
               /\ TemplateRuleMatches(registry, parseType(cleanType)) )
             => /\ convCall.outcome = "returned"
                /\ convCall.v = expected(parseType(cleanType))
       IN holds(cleanTypeString(convCall.input))

sFooWidget == <<"F","o","o",":",":","W","i","d","g","e","t">>

fooToBar == NamespaceMapping(<<"F","o","o">>, <<"B","a","r">>, FALSE)

\* what the namespace-mapping rules of the namespace of parsed give: the
\* base type alone when the rule strips, target namespace "." base type
\* otherwise
NamespaceMapped(reg, parsed) ==
  {IF reg.namespaceMappings[i].stripNamespace THEN parsed.baseType
   ELSE reg.namespaceMappings[i].tsNamespace \o sDot \o parsed.baseType :
     i \in {j \in 1..Len(reg.namespaceMappings) :
              reg.namespaceMappings[j].cppNamespace = parsed.namespace}}

\* the type is ns::T without generic arguments, and ns is the source
\* namespace of a namespace-mapping rule
MappedPlainType(reg, parsed) ==
  /\ parsed.ok
  /\ ~parsed.hasArgs
  /\ parsed.namespace # <<>>
  /\ NamespaceRuleMatches(reg, parsed)

MaxArgs == 2

\* what stands before the argument list
Heads == { <<"O","u","t","e","r">>, <<"N",":",":","O","u","t","e","r">>, <<"c","o","n","s","t"," ","K",".","N",".","O","u","t","e","r">> }

\* the texts between the commas of an argument list
Groups ==
  { <<"A">>, <<"I","n","n","e","r","<","B",","," ","C",">">>, <<"*","B">>, <<":",":","N",":",":","B">>, <<>>, <<"c","o","n","s","t"," ","N",".","B","&">>,
    <<"B","[","]">> }

\* what stands after the argument list
Tails == { <<>>, <<"[","]">>, <<" ","*">> }

\* the argument lists: none, or up to MaxArgs groups between "<" and ">",
\* or the same with the closing bracket missing
ArgLists ==
  {<<>>} \cup
  UNION { { <<"<">> \o JoinWith(groups, <<",", " ">>) \o close :
              groups \in [1..n -> Groups], close \in { <<">">>, <<>> } } :
          n \in 0..MaxArgs }

\* the signatures handed to parseType
Signatures ==
  { head \o list \o tail : head \in Heads, list \in ArgLists, tail \in Tails }

AnalyzerInit ==
  /\ registry = DefaultRegistry
  /\ conversionCache = EmptyMap
  /\ convCall = NoCall
  /\ addedRules = <<>>
  /\ mutations = 0
  /\ world = 0
  /\ NewParser(<<>>)

\* cppTypeAnalyzer.parseType(typeString) on a signature, the first call
ParseSignature ==
  /\ parseCall.source = "none"
  /\ \E typeString \in Signatures :
       parseCall' = [input |-> typeString, source |-> "signature",
                     result |-> parseType(typeString)]
  /\ UNCHANGED <<mapperVars, resolverVars, loadCall, trackCall, pipeline>>

\* cppTypeAnalyzer.parseType(parsed.fullName) on the result of the last call
ParseFullName ==
  /\ parseCall.source = "signature"
  /\ parseCall.result.ok
  /\ parseCall' = [input |-> parseCall.result.fullName, source |-> "fullName",
                   result |-> parseType(parseCall.result.fullName)]
  /\ UNCHANGED <<mapperVars, resolverVars, loadCall, trackCall, pipeline>>

AnalyzerNext == ParseSignature \/ ParseFullName

SpecAnalyzer == AnalyzerInit /\ [][AnalyzerNext]_vars

(***************************************************************************)
(* Properties of the analyzer (SpecAnalyzer)                               *)
(***************************************************************************)
RECURSIVE DepthOneCommas(_, _, _, _)
\* the number of commas of s, from position i on, that stand at bracket
\* depth 1 of the first argument list; opened tells that the list was entered
DepthOneCommas(s, i, depth, opened) ==
  IF i > Len(s) \/ (opened /\ depth = 0) THEN 0
  ELSE IF s[i] = "<" THEN DepthOneCommas(s, i + 1, depth + 1, TRUE)
  ELSE IF s[i] = ">" THEN DepthOneCommas(s, i + 1, depth - 1, opened)
  ELSE (IF s[i] = "," /\ depth = 1 THEN 1 ELSE 0)
       + DepthOneCommas(s, i + 1, depth, opened)

RECURSIVE ListHasText(_, _, _, _)
\* something other than white space stands inside the first argument list
ListHasText(s, i, depth, opened) ==
  IF i > Len(s) \/ (opened /\ depth = 0) THEN FALSE
  ELSE IF s[i] = "<"
  THEN depth >= 1 \/ ListHasText(s, i + 1, depth + 1, TRUE)
  ELSE IF s[i] = ">"
  THEN depth > 1 \/ ListHasText(s, i + 1, depth - 1, opened)
  ELSE (depth >= 1 /\ s[i] \notin SpaceChars)
       \/ ListHasText(s, i + 1, depth, opened)

\* the number of depth-1 comma-separated argument groups of a signature: none
\* without an argument list or with nothing between its brackets, otherwise
\* one more than its depth-1 commas
TopLevelGroups(s) ==
  IF ~ListHasText(s, 1, 0, FALSE) THEN 0
  ELSE DepthOneCommas(s, 1, 0, FALSE) + 1

sOuter == <<"O","u","t","e","r","<","A",","," ","I","n","n","e","r","<","B",","," ","C",">",">">>

\* C13: every signature that parseType parses has as many top-level generic
\* arguments as it has depth-1 comma-separated argument groups, and
\* "Outer<A, Inner<B, C>>" has exactly the two arguments A and Inner<B, C>.
C13_ArgumentsAreDepthOneGroups ==
  ( /\ parseCall.source = "signature"
    /\ parseCall.result.ok )
  => /\ Len(parseCall.result.templateArgs) = TopLevelGroups(parseCall.input)
     /\ parseCall.input = sOuter
          => ArgNames(parseCall.result.templateArgs)
               = << <<"A">>, <<"I","n","n","e","r","<","B",","," ","C",">">> >>

\* C14: normalization is idempotent: whenever parseType parsed a signature,
\* parsing the fullName of the result succeeds and gives the same fullName.
C14_FullNameIsFixedPoint ==
  parseCall.source = "fullName" =>
    /\ parseCall.result.ok
    /\ parseCall.result.fullName = parseCall.input

\* the fullName of a parsed signature with a dotted name, generic arguments,
\* an array suffix and qualifiers was parsed again
C14_Witness ==
  /\ parseCall.source = "fullName"
  /\ parseCall.input = <<"K",":",":","N",":",":","O","u","t","e","r","<","I","n","n","e","r","<","B",","," ","C",">",","," ","N",":",":","B",">","[","]">>
  /\ parseCall.result.ok
  /\ parseCall.result.fullName = parseCall.input

(***************************************************************************)
(* Loading a configuration file: part_003 (the schemas),                   *)
(* createTypeSystemFromFile and TypeMapper.loadConfig                      *)
(*                                                                         *)
(* A file is [kind |-> "missing"] (Deno.readTextFile throws), [kind |->    *)
(* "text"] (text that JSON.parse rejects), [kind |-> "null"] (the JSON     *)
(* null) or [kind |-> "object", object |-> r] with r the record of the     *)
(* JSON object; a JSON array is a sequence, a JSON string a string.        *)
(***************************************************************************)
\* the keys of TypeMappingSchema, a strict object
TypeMappingKeys ==
  {"name", "tsType", "category", "description", "templateParams",
   "namespace"}

\* TypeMappingSchema.parse succeeds
TypeMappingSchema(entry) ==
  /\ DOMAIN entry \subseteq TypeMappingKeys
  /\ {"name", "tsType", "category"} \subseteq DOMAIN entry
  /\ Len(entry.name) >= 1
  /\ Len(entry.tsType) >= 1
  /\ Len(entry.category) >= 1

\* TypeMappingConfigSchema.parse succeeds: a strict object, at least one
\* mapping, the two other lists optional
TypeMappingConfigSchema(config) ==
  /\ DOMAIN config \subseteq {"mappings", "templateMappings", "namespaceMappings"}
  /\ "mappings" \in DOMAIN config
  /\ Len(config.mappings) >= 1
  /\ \A i \in 1..Len(config.mappings) : TypeMappingSchema(config.mappings[i])
  /\ "templateMappings" \in DOMAIN config =>
       \A i \in 1..Len(config.templateMappings) :
         {"pattern", "replacement"} \subseteq DOMAIN config.templateMappings[i]
  /\ "namespaceMappings" \in DOMAIN config =>
       \A i \in 1..Len(config.namespaceMappings) :
         {"cppNamespace", "tsNamespace"}
           \subseteq DOMAIN config.namespaceMappings[i]

\* validateTypeMappingConfig: the validated object, or the Error it throws
validateTypeMappingConfig(config) ==
  IF TypeMappingConfigSchema(config) THEN [ok |-> TRUE, value |-> config]
  ELSE [ok |-> FALSE, message |-> <<"I","n","v","a","l","i","d"," ","T","y","p","e","M","a","p","p","i","n","g","C","o","n","f","i","g",":"," ">>
                                    \o <<"i","s","s","u","e","s">>]

\* the object without the key customRules
WithoutRules(object) ==
  [k \in DOMAIN object \ {"customRules"} |-> object[k]]

RECURSIVE AsTypeDefinitions(_)
\* validatedConfig.mappings as TypeDefinition[]
AsTypeDefinitions(entries) ==
  IF entries = <<>> THEN <<>>
  ELSE << TypeDef(entries[1].name, entries[1].tsType,
                  IF "aliases" \in DOMAIN entries[1]
                  THEN entries[1].aliases ELSE <<>>) >>
       \o AsTypeDefinitions(Tail(entries))

RECURSIVE AsNamespaceMappings(_)
\* the namespace mappings as the converter reads them: stripNamespace
\* undefined is falsy
AsNamespaceMappings(entries) ==
  IF entries = <<>> THEN <<>>
  ELSE << NamespaceMapping(entries[1].cppNamespace, entries[1].tsNamespace,
                           "stripNamespace" \in DOMAIN entries[1]
                           /\ entries[1].stripNamespace) >>
       \o AsNamespaceMappings(Tail(entries))

RECURSIVE AsTemplateMappings(_)
AsTemplateMappings(entries) ==
  IF entries = <<>> THEN <<>>
  ELSE << TemplateMapping(entries[1].pattern, entries[1].replacement) >>
       \o AsTemplateMappings(Tail(entries))

\* the message of the Error createTypeSystemFromFile throws
LoadFailure(errorMessage) ==
  [ok |-> FALSE,
   message |-> <<"F","a","i","l","e","d"," ","t","o"," ","l","o","a","d"," ","t","y","p","e"," ","c","o","n","f","i","g","u","r","a","t","i","o","n"," ","f","r","o","m"," ","p","a","t","h",":"," ">>
                 \o errorMessage]

\* createTypeSystemFromFile: a registry and a converter with no entries, or
\* the Error thrown
createTypeSystemFromFile(file) ==
  LET typeSystemConfig(validatedConfig) ==
        [mappings |-> AsTypeDefinitions(validatedConfig.mappings),
         templateMappings |->
           IF "templateMappings" \in DOMAIN validatedConfig
           THEN AsTemplateMappings(validatedConfig.templateMappings)
           ELSE <<>>,
         namespaceMappings |->
           IF "namespaceMappings" \in DOMAIN validatedConfig
           THEN AsNamespaceMappings(validatedConfig.namespaceMappings)
           ELSE <<>>,
         customRules |-> <<>>]
      validated(v) ==
        IF ~v.ok THEN LoadFailure(v.message)
        ELSE [ok |-> TRUE,
              registry |-> loadFromConfig(EmptyRegistry,
                                          typeSystemConfig(v.value)),
              conversionCache |-> EmptyMap]
  IN CASE file.kind = "missing" -> LoadFailure(<<"N","o"," ","s","u","c","h"," ","f","i","l","e"," ","o","r"," ","d","i","r","e","c","t","o","r","y">>)
       [] file.kind = "text" -> LoadFailure(<<"U","n","e","x","p","e","c","t","e","d"," ","t","o","k","e","n"," ","i","n"," ","J","S","O","N">>)
       [] file.kind = "null" ->
            LoadFailure(<<"C","a","n","n","o","t"," ","d","e","s","t","r","u","c","t","u","r","e"," ","n","u","l","l">>)
       [] OTHER ->
            validated(validateTypeMappingConfig(WithoutRules(file.object)))

\* TypeMapper.loadConfig_SilentDefault: as loadConfig, but a failed load
\* installs the default registry
loadConfig_SilentDefault(mapper, file) ==
  LET load(system) ==
        IF system.ok
        THEN [registry |-> system.registry,
              conversionCache |-> system.conversionCache,
              outcome |-> "loaded", system |-> system]
        ELSE [registry |-> DefaultRegistry,
              conversionCache |-> EmptyMap,
              outcome |-> "thrown", system |-> system]
  IN load(createTypeSystemFromFile(file))

\* TypeMapper.loadConfig on the mapper [registry, conversionCache]: the
\* fields after the call and whether it threw
loadConfig(mapper, file) ==
  LET load(system) ==
        IF system.ok
        THEN [registry |-> system.registry,
              conversionCache |-> system.conversionCache,
              outcome |-> "loaded", system |-> system]
        ELSE [registry |-> mapper.registry,
              conversionCache |-> mapper.conversionCache,
              outcome |-> "thrown", system |-> system]
  IN load(createTypeSystemFromFile(file))

entryPlain == [name |-> <<"F","o","o">>, tsType |-> <<"B","a","r">>, category |-> <<"c","u","s","t","o","m">>]

entryDescribed ==
  [name |-> <<"T">>, tsType |-> <<"X">>, category |-> <<"c","u","s","t","o","m">>,
   description |-> <<"d">>]

entryAliased ==
  [name |-> <<"T">>, tsType |-> <<"X">>, category |-> <<"c","u","s","t","o","m">>,
   description |-> <<"d">>, aliases |-> << <<"N","s",":",":","T">>, <<"U">> >>]

entryNameless == [name |-> <<>>, tsType |-> <<"X">>, category |-> <<"c","u","s","t","o","m">>]

\* the files handed to loadConfig
ConfigFiles ==
  { [kind |-> "missing"],
    [kind |-> "text"],
    [kind |-> "null"],
    [kind |-> "object", object |-> [version |-> <<"1",".","0",".","0">>,
                                     mappings |-> << entryPlain >>]],
    [kind |-> "object", object |-> [templateMappings |-> <<>>]],
    [kind |-> "object", object |-> [mappings |-> <<>>]],
    [kind |-> "object", object |-> [mappings |-> << entryNameless >>]],
    [kind |-> "object", object |-> [mappings |-> << entryPlain >>]],
    [kind |-> "object",
     object |-> [mappings |-> << entryPlain, entryDescribed >>,
                 namespaceMappings |->
                   << [cppNamespace |-> <<"F","o","o">>, tsNamespace |-> <<"B","a","r">>] >>,
                 customRules |-> << ruleFoo >>]],
    [kind |-> "object", object |-> [mappings |-> << entryAliased >>]] }

\* the most loadConfig calls of one behaviour
MaxLoads == 2

\* new TypeMapper()
LoaderInit ==
  /\ registry = DefaultRegistry
  /\ conversionCache = EmptyMap
  /\ convCall = NoCall
  /\ addedRules = <<>>
  /\ mutations = 0
  /\ world = 0
  /\ NewParser(<<>>)

\* TypeMapper.loadConfig(configPath)
LoadConfig ==
  /\ loadCall.n < MaxLoads
  /\ \E file \in ConfigFiles :
       LET called(after) ==
             /\ registry' = after.registry
             /\ conversionCache' = after.conversionCache
             /\ loadCall' = [n |-> loadCall.n + 1, file |-> file,
                             outcome |-> after.outcome,
                             system |-> after.system]
       IN called(loadConfig([registry |-> registry,
                             conversionCache |-> conversionCache], file))
  /\ UNCHANGED <<convCall, addedRules, mutations, resolverVars, parseCall,
                 trackCall, pipeline>>

\* TypeMapper.mapCppTypeToTs is ConvertFresh
LoaderNext == LoadConfig \/ ConvertFresh

SpecLoader == LoaderInit /\ [][LoaderNext]_vars

(***************************************************************************)
(* Properties of the loader (SpecLoader)                                   *)
(***************************************************************************)
\* the payload is unreadable, not JSON, or rejected by
\* validateTypeMappingConfig
Malformed(file) ==
  \/ file.kind = "missing"
  \/ file.kind = "text"
  \/ /\ file.kind = "object"
     /\ ~validateTypeMappingConfig(WithoutRules(file.object)).ok

sFailedToLoad == <<"F","a","i","l","e","d"," ","t","o"," ","l","o","a","d"," ","t","y","p","e"," ","c","o","n","f","i","g","u","r","a","t","i","o","n"," ","f","r","o","m"," ","p","a","t","h",":"," ">>

\* C15: a loadConfig call on a malformed payload throws an error whose
\* message names the failure and its cause, createTypeSystemFromFile gives
\* no registry and no converter, and the mapper keeps the registry and the
\* converter (with its entries) it had before the call.
C15_LoadIsAllOrNothing ==
  [][ ( /\ loadCall'.n = loadCall.n + 1
        /\ Malformed(loadCall'.file) )
      => /\ loadCall'.outcome = "thrown"
         /\ ~loadCall'.system.ok
         /\ DOMAIN loadCall'.system = {"ok", "message"}
         /\ StartsAt(loadCall'.system.message, 1, sFailedToLoad)
         /\ Len(loadCall'.system.message) > Len(sFailedToLoad)
         /\ registry' = registry
         /\ conversionCache' = conversionCache ]_vars

\* a mapper that had loaded a configuration and converted a type was given
\* a payload the validation rejects, and holds what it held
C15_Witness ==
  /\ loadCall.n = 2
  /\ loadCall.outcome = "thrown"
  /\ loadCall.file.kind = "object"
  /\ registry # DefaultRegistry
  /\ getType(registry, <<"F","o","o">>).found
  /\ conversionCache # EmptyMap

\* the entries of the payload that carry aliases
AliasedEntries(file) ==
  IF file.kind = "object" /\ "mappings" \in DOMAIN file.object
  THEN {i \in 1..Len(file.object.mappings) :
          "aliases" \in DOMAIN file.object.mappings[i]}
  ELSE {}

\* C16: a loadConfig call on a payload whose mapping entries carry
\* description and aliases (and nothing else the schema does not know)
\* succeeds, and the registry it leaves resolves every alias to the
\* definition of the entry that declared it.
C16_AliasesLoaded ==
  AliasedEntries(loadCall.file) # {} =>
    /\ loadCall.outcome = "loaded"
    /\ \A i \in AliasedEntries(loadCall.file) :
         LET aliasesResolve(entry) ==
               \A k \in 1..Len(entry.aliases) :
                 /\ hasType(registry, entry.aliases[k])
                 /\ getType(registry, entry.aliases[k]).def.name = entry.name
                 /\ getType(registry, entry.aliases[k]).def.tsType
                      = entry.tsType
         IN aliasesResolve(loadCall.file.object.mappings[i])

(***************************************************************************)
(* The tracker on its own: extractTypeDependencies on a declaration and    *)
(* the document it was read from                                           *)
(***************************************************************************)
\* the type strings the members of the declarations carry
MemberTypes ==
  { <<"i","n","t">>, <<"i","n","t","[","]">>, <<"c","o","n","s","t"," ","Q","S","t","r","i","n","g","&">>, <<"Q","S","t","r","i","n","g","[","]","[","]">>, <<"F","o","o">>,
    <<"F","o","o","[","]">>, <<"K","W","i","n",":",":","W","i","n","d","o","w","*">>, <<"N","S",":",":","B","a","s","e">>, <<"B","a","s","e">>, <<"K","W","i","n",".","F","o","o",".","B","a","r">>,
    <<"{"," ","x",":"," ","n","u","m","b","e","r"," ","}">>, <<"O","t","h","e","r",":",":","W","i","n","d","o","w","[","]">> }

\* how a declaration uses a type
Usages ==
  {"inheritance", "property", "method_return", "method_param",
   "signal_param"}

\* the declaration A that uses type once, as usage
DeclarationUsing(usage, type) ==
  ParsedClass(<<"A">>,
              IF usage = "inheritance" THEN <<type>> ELSE <<>>,
              IF usage = "property" THEN <<type>> ELSE <<>>,
              IF usage = "method_return" THEN << Method(type, <<>>) >>
              ELSE IF usage = "method_param"
              THEN << Method(<<>>, <<type>>) >> ELSE <<>>,
              IF usage = "signal_param" THEN << Method(<<>>, <<type>>) >>
              ELSE <<>>,
              <<>>)

Declarations ==
  { DeclarationUsing(usage, type) : usage \in Usages, type \in MemberTypes }

\* the pages the declarations are read from, by their anchors
SourceDocs ==
  { Document(NoDecl, <<>>),
    Document(NoDecl, << Anchor(<<"K","W","i","n",":",":","W","i","n","d","o","w">>, <<"c","l","a","s","s","_","w","i","n","d","o","w",".","h","t","m","l">>),
                        Anchor(<<"F","o","o">>, <<"c","l","a","s","s","_","f","o","o",".","h","t","m","l">>),
                        Anchor(<<"B","a","s","e">>, <<"i","n","d","e","x",".","h","t","m","l">>) >>),
    Document(NoDecl, << Anchor(<<"N","S",":",":","B","a","s","e">>, <<"c","l","a","s","s","_","n","s","_","b","a","s","e",".","h","t","m","l">>),
                        Anchor(<<"K","W","i","n",":",":","B","a","s","e">>, <<"c","l","a","s","s","_","k","w","i","n","_","b","a","s","e",".","h","t","m","l">>),
                        Anchor(<<"K","W","i","n",":",":","F","o","o",":",":","B","a","r">>, <<"c","l","a","s","s","_","f","o","o","_","b","a","r",".","h","t","m","l">>),
                        Anchor(<<"K","W","i","n",":",":","F","o","o",".","B","a","r">>, <<"c","l","a","s","s","_","b","a","r",".","h","t","m","l">>) >>),
    Document(NoDecl, << Anchor(<<"K","W","i","n",":",":","F","o","o",".","B","a","r">>, <<"c","l","a","s","s","_","b","a","r",".","h","t","m","l">>),
                        Anchor(<<"u","n","d","e","f","i","n","e","d",":",":","B","a","s","e">>, <<"c","l","a","s","s","_","b","a","s","e",".","h","t","m","l">>),
                        Anchor(<<"O","t","h","e","r",":",":","W","i","n","d","o","w">>, <<"s","t","r","u","c","t","_","w","i","n","d","o","w",".","h","t","m","l">>),
                        Anchor(<<"i","n","t">>, <<"c","l","a","s","s","_","i","n","t",".","h","t","m","l">>) >>) }

TrackerInit ==
  /\ registry = DefaultRegistry
  /\ conversionCache = EmptyMap
  /\ convCall = NoCall
  /\ addedRules = <<>>
  /\ mutations = 0
  /\ world = 0
  /\ NewParser(<<>>)

\* tracker.extractTypeDependencies(classInfo, sourceDoc, sourceLocation), the
\* first call
ExtractTypeDependencies ==
  /\ ~trackCall.called
  /\ \E classInfo \in Declarations, sourceDoc \in SourceDocs :
       trackCall' = [called |-> TRUE, classInfo |-> classInfo,
                     sourceDoc |-> sourceDoc,
                     dependencies |->
                       extractTypeDependencies(classInfo, sourceDoc,
                                               <<"a",".","h","t","m","l">>)]
  /\ UNCHANGED <<mapperVars, resolverVars, parseCall, loadCall, pipeline>>

\* tracker.getUnresolvedDependencies(dependencies) on what the call returned
GetUnresolvedDependencies ==
  /\ trackCall.called
  /\ trackCall' = [trackCall EXCEPT
                     !.dependencies = getUnresolvedDependencies({}, @)]
  /\ UNCHANGED <<mapperVars, resolverVars, parseCall, loadCall, pipeline>>

TrackerNext == ExtractTypeDependencies \/ GetUnresolvedDependencies

SpecTracker == TrackerInit /\ [][TrackerNext]_vars

(***************************************************************************)
(* Properties of the tracker (SpecTracker)                                 *)
(***************************************************************************)
\* C17: no dependency that extractTypeDependencies returned, whatever its
\* usageType, has a fullName that the tracker's registry resolves to a
\* definition.
C17_NoBuiltinDependency ==
  trackCall.called =>
    \A i \in 1..Len(trackCall.dependencies) :
      ~getType(DefaultRegistry, trackCall.dependencies[i].fullName).found

\* the link of the first candidate, in order, that the link map holds; <<>>
\* when it holds none of them
FirstPresent(candidates, docLinks) ==
  LET present == {i \in 1..Len(candidates) : MapHas(docLinks, candidates[i])}
  IN IF present = {} THEN <<>>
     ELSE docLinks[candidates[CHOOSE i \in present :
                                \A j \in present : i <= j]]

\* the five candidates of the claim, in its order
FiveCandidates(dep) ==
  << dep.fullName, dep.typeName, <<"K","W","i","n",":",":">> \o dep.typeName >>
  \o (IF dep.hasNamespace
      THEN << dep.namespace \o <<":",":">> \o dep.typeName >> ELSE <<>>)
  \o << ReplaceAll(dep.fullName, <<".">>, <<":",":">>) >>

\* the candidates as amended: the fourth is built from the text "undefined"
\* when the dependency has no namespace, and a sixth follows, the full name
\* with every "KWin." replaced by "KWin::"
SixCandidates(dep) ==
  << dep.fullName, dep.typeName, <<"K","W","i","n",":",":">> \o dep.typeName,
     (IF dep.hasNamespace THEN dep.namespace ELSE <<"u","n","d","e","f","i","n","e","d">>)
       \o <<":",":">> \o dep.typeName,
     ReplaceAll(dep.fullName, <<".">>, <<":",":">>),
     ReplaceAll(dep.fullName, <<"K","W","i","n",".">>, <<"K","W","i","n",":",":">>) >>

\* C18 as stated: every dependency returned carries the link of the first of
\* the candidates full name, bare type name, KWin::<type name>,
\* <namespace>::<type name>, full name with "." converted to "::" that the
\* document's link map holds, and no link when it holds none of them.
C18_FirstOfFiveCandidates ==
  trackCall.called =>
    \A i \in 1..Len(trackCall.dependencies) :
      trackCall.dependencies[i].linkedHref
        = FirstPresent(FiveCandidates(trackCall.dependencies[i]),
                       extractTypeLinksFromDocument(trackCall.sourceDoc))

\* C18 as amended: the same over six candidates, the five of the claim and
\* then the full name with every "KWin." replaced by "KWin::".
C18_FirstOfSixCandidates ==
  trackCall.called =>
    \A i \in 1..Len(trackCall.dependencies) :
      trackCall.dependencies[i].linkedHref
        = FirstPresent(SixCandidates(trackCall.dependencies[i]),
                       extractTypeLinksFromDocument(trackCall.sourceDoc))

\* the map holds the link class_foo_bar.html under KWin::Foo::Bar and
\* class_bar.html under KWin::Foo.Bar, and the dependency on KWin.Foo.Bar
\* carries the first of the two
C18_Witness ==
  /\ trackCall.called
  /\ MapHas(extractTypeLinksFromDocument(trackCall.sourceDoc),
            <<"K","W","i","n",":",":","F","o","o",":",":","B","a","r">>)
  /\ MapHas(extractTypeLinksFromDocument(trackCall.sourceDoc),
            <<"K","W","i","n",":",":","F","o","o",".","B","a","r">>)
  /\ \E i \in 1..Len(trackCall.dependencies) :
       /\ trackCall.dependencies[i].fullName = <<"K","W","i","n",".","F","o","o",".","B","a","r">>
       /\ trackCall.dependencies[i].linkedHref = <<"c","l","a","s","s","_","f","o","o","_","b","a","r",".","h","t","m","l">>

(***************************************************************************)
(* Further properties of the dependency resolution (Spec)                  *)
(***************************************************************************)
\* C19: a full name that is in the circular-reference set and not pending is
\* not placed in the pending set by any later step of the parser, be it the
\* re-scan of a round or extractDependenciesFromDocument for the next
\* document.
C19_CircularNeverPendingAgain ==
  [][ \A name \in circularDependencies :
        name \notin DOMAIN pendingResolutions
          => name \notin DOMAIN pendingResolutions' ]_vars

\* the path contains "namespace_" and ends with ".html"
IsNamespacePath(path) ==
  /\ Includes(path, <<"n","a","m","e","s","p","a","c","e","_">>)
  /\ EndsWith(path, <<".","h","t","m","l">>)

\* C20: after every step, the path of every resolution that reads a document
\* whose path contains "namespace_" and ends with ".html" is in the
\* repository's namespace-file set (the set NamespaceParsingStage reads), and
\* no step takes a path out of that set.
C20_NamespaceFilesRecorded ==
  [][ /\ repository.discoveredNamespaceFiles
           \subseteq repository'.discoveredNamespaceFiles
      /\ \A name \in DOMAIN pendingResolutions' :
           IsNamespacePath(pendingResolutions'[name].href)
             => pendingResolutions'[name].href
                  \in repository'.discoveredNamespaceFiles ]_vars

\* the resolution of KWin::Mode reads html/namespace_k.html, which the set
\* holds, and the set held it before this document was handed in
C20_Witness ==
  /\ session = 2
  /\ MapHas(pendingResolutions, <<"K","W","i","n",":",":","M","o","d","e">>)
  /\ pendingResolutions[<<"K","W","i","n",":",":","M","o","d","e">>].href = <<"h","t","m","l","/","n","a","m","e","s","p","a","c","e","_","k",".","h","t","m","l">>
  /\ repository.discoveredNamespaceFiles = { <<"h","t","m","l","/","n","a","m","e","s","p","a","c","e","_","k",".","h","t","m","l">> }

\* C21: when resolveAllDependencies has returned, no resolution of the
\* pending set is still in flight.
C21_NothingInFlightAtReturn ==
  pc = "returned" =>
    \A name \in DOMAIN pendingResolutions : pendingResolutions[name].settled

\* C22: a dependency whose document was fetched is never scheduled and
\* fetched again: the name whose fetch ended last has no fetch in flight.
C22_FetchedOnlyOnce ==
  lastSettled.name # <<>> =>
    ~(/\ MapHas(pendingResolutions, lastSettled.name)
      /\ ~pendingResolutions[lastSettled.name].settled)
(***************************************************************************)
(* KWinDoxygenParser.clear between sessions (SpecReset)                    *)
(***************************************************************************)
\* InMemoryParsingRepository.clear: classes, globalEnums, visitedUrls and
\* duplicatesRemoved are emptied; discoveredNamespaceFiles is not touched
clear(repo) == [repo EXCEPT !.classes = <<>>, !.duplicatesRemoved = 0]

\* TypeDependencyService.reset: the fields of the service; the tracker it
\* was constructed with is not touched
reset(s) ==
  [s EXCEPT !.pendingResolutions = EmptyMap,
            !.processedClasses = {},
            !.circularDependencies = {},
            !.sourceDocuments = EmptyMap,
            !.maxDepthReached = 0,
            !.resolvedTypesCount = 0,
            !.unresolvedTypesCount = 0]

\* KWinDoxygenParser.clear, called once a session has returned and its reads
\* have ended; the documents can then be handed to the parser again
Clear ==
  /\ pc = "returned"
  /\ \A name \in DOMAIN pendingResolutions : pendingResolutions[name].settled
  /\ Install(reset([Cur EXCEPT !.repository = clear(@)]))
  /\ session' = 0
  /\ UNCHANGED <<world, pc, iteration, pendingCount, maxIterationsWarned,
                 lastSettled, mapperVars, callVars>>

ResetNext == ProcessDocument \/ Settle \/ ContinueRound \/ Clear

SpecReset == Init /\ [][ResetNext]_vars

\* C23: a clear leaves the session state of a freshly constructed parser:
\* an empty repository without namespace files, an empty service with
\* counters at zero, and a tracker without resolved declarations.
C23_ClearRestoresInitialState ==
  [][(session > 0 /\ session' = 0) =>
       /\ repository' = [classes |-> <<>>, discoveredNamespaceFiles |-> {},
                         duplicatesRemoved |-> 0]
       /\ pendingResolutions' = EmptyMap
       /\ processedClasses' = {}
       /\ circularDependencies' = {}
       /\ sourceDocuments' = EmptyMap
       /\ maxDepthReached' = 0
       /\ resolvedTypesCount' = 0
       /\ unresolvedTypesCount' = 0
       /\ parsedClasses' = {}]_vars
(***************************************************************************)
(* Generic arguments and their original text (SpecArguments)               *)
(***************************************************************************)
\* the texts of one generic argument: an optional leading const, a type of
\* one or more words, and what may follow it
ArgumentTexts ==
  { prefix \o base \o suffix :
      prefix \in { <<>>, <<"c","o","n","s","t"," ">> },
      base \in { <<"A">>, <<"N",":",":","B">>, <<"K",".","N",".","B">>, <<"u","n","s","i","g","n","e","d"," ","i","n","t">>, <<"l","o","n","g"," ","l","o","n","g">>,
                 <<"c","o","n","s","t","a","n","t">>, <<"I","n","n","e","r","<","B",","," ","C",">">>, <<"I","n","n","e","r","<","u","n","s","i","g","n","e","d"," ","i","n","t",">">> },
      suffix \in { <<>>, <<"*">>, <<"&">>, <<" ","*">>, <<" ","c","o","n","s","t">>, <<"[","]">> } }

\* the generic types the argument stands in
Containers == { <<"O","u","t","e","r">>, <<"N",":",":","Q","L","i","s","t">> }

\* cppTypeAnalyzer.parseType on a generic type with the one argument a, the
\* first call; input keeps the original text a of the argument
ParseArgument ==
  /\ parseCall.source = "none"
  /\ \E container \in Containers, a \in ArgumentTexts :
       parseCall' = [input |-> a, source |-> "argument",
                     result |-> parseType(container \o <<"<">> \o a \o <<">">>)]
  /\ UNCHANGED <<mapperVars, resolverVars, loadCall, trackCall, pipeline>>

\* identifiers, some of which begin with or hold the letters const
Identifiers ==
  { <<"c","o","n","s","t","a","n","t">>, <<"c","o","n","s","t","r","a","i","n","t","s">>, <<"c","o","n","s","t","_","i","t","e","r","a","t","o","r">>, <<"c","o","n","s","t","e","x","p","r">>,
    <<"F","o","o">>, <<"m","y","c","o","n","s","t">>, <<"C","o","n","s","t","a","n","t">>, <<"c","o","n","s">>, <<"Q","S","t","r","i","n","g">> }

\* cppTypeAnalyzer.parseType on one identifier, alone or after the word
\* const, the first call
ParseIdentifier ==
  /\ parseCall.source = "none"
  /\ \E word \in Identifiers, isConst \in BOOLEAN :
       parseCall' = [input |-> word, source |-> "identifier",
                     isConst |-> isConst,
                     result |-> parseType((IF isConst THEN <<"c","o","n","s","t"," ">>
                                           ELSE <<>>) \o word)]
  /\ UNCHANGED <<mapperVars, resolverVars, loadCall, trackCall, pipeline>>

ArgumentsNext == ParseArgument \/ ParseIdentifier

SpecArguments == AnalyzerInit /\ [][ArgumentsNext]_vars

\* two Parsed Types agree on fullName, baseType and the three flags
SameParsedType(p, q) ==
  /\ p.fullName = q.fullName
  /\ p.baseType = q.baseType
  /\ p.isConst = q.isConst
  /\ p.isPointer = q.isPointer
  /\ p.isReference = q.isReference

\* C24: the Parsed Type stored in templateArgs for a generic argument agrees
\* with parseType of the argument's original text.
C24_ArgumentAsOriginalText ==
  ( /\ parseCall.source = "argument"
    /\ parseCall.result.ok
    /\ Len(parseCall.result.templateArgs) = 1 )
  => LET original == parseType(parseCall.input)
     IN /\ original.ok
        /\ SameParsedType(parseCall.result.templateArgs[1], original)

\* C25: an identifier is lexed as one identifier token also when it begins
\* with the letters const: parseType gives the whole identifier as baseType,
\* and isConst exactly when the standalone word const stands before it.
C25_ConstIsAStandaloneWord ==
  parseCall.source = "identifier" =>
    /\ parseCall.result.ok
    /\ parseCall.result.baseType = parseCall.input
    /\ parseCall.result.isConst = parseCall.isConst

(***************************************************************************)
(* Namespace-qualified containers (SpecConverter)                          *)
(***************************************************************************)
\* what a converter with no entries over the registry returns for T
Converted(T) == cppToTypeScript(registry, EmptyMap, T, MaxCallDepth).v

\* C26: with the default type mappings std::vector<T> converts to the
\* converted T followed by [], std::map<K, V> to Map<K', V'> and std::set<T>
\* to Set<T'>.
C26_StdContainersConverted ==
  ( /\ registry = DefaultRegistry
    /\ convCall # NoCall )
  => /\ convCall.input = <<"s","t","d",":",":","v","e","c","t","o","r","<","i","n","t",">">>
          => /\ convCall.outcome = "returned"
             /\ convCall.v = Converted(<<"i","n","t">>) \o <<"[","]">>
             /\ convCall.v = <<"n","u","m","b","e","r","[","]">>
     /\ convCall.input = <<"s","t","d",":",":","v","e","c","t","o","r","<","F","o","o",":",":","W","i","d","g","e","t",">">>
          => /\ convCall.outcome = "returned"
             /\ convCall.v = Converted(<<"F","o","o",":",":","W","i","d","g","e","t">>) \o <<"[","]">>
     /\ convCall.input = <<"s","t","d",":",":","m","a","p","<","Q","S","t","r","i","n","g",","," ","i","n","t",">">>
          => /\ convCall.outcome = "returned"
             /\ convCall.v = <<"M","a","p","<">> \o Converted(<<"Q","S","t","r","i","n","g">>) \o <<","," ">>
                               \o Converted(<<"i","n","t">>) \o <<">">>
     /\ convCall.input = <<"s","t","d",":",":","s","e","t","<","b","o","o","l",">">>
          => /\ convCall.outcome = "returned"
             /\ convCall.v = <<"S","e","t","<">> \o Converted(<<"b","o","o","l">>) \o <<">">>

(***************************************************************************)
(* InMemoryParsingRepository.addClass on its own (SpecRepository)          *)
(***************************************************************************)
ParsedEnum(name, values, description) ==
  [name |-> name, values |-> values, description |-> description]

enumMode == ParsedEnum(<<"M","o","d","e">>, <<<<"O","n">>, <<"O","f","f">>>>, <<"f","i","r","s","t">>)

\* the same name and value names as enumMode, described otherwise
enumModeAgain == ParsedEnum(<<"M","o","d","e">>, <<<<"O","n">>, <<"O","f","f">>>>, <<"a","g","a","i","n">>)

\* the name of enumMode with other value names
enumModeWide == ParsedEnum(<<"M","o","d","e">>, <<<<"O","n">>, <<"O","f","f">>, <<"A","u","t","o">>>>, <<"w","i","d","e">>)

enumEdge == ParsedEnum(<<"E","d","g","e">>, <<<<"T","o","p">>>>, <<>>)

\* the declarations handed to addClass: two names, with and without a
\* property, and five lists of enums
ClassPool ==
  { ParsedClass(fullName, <<>>, properties, <<>>, <<>>, enums) :
      fullName \in { <<"A">>, <<"K",":",":","B">> },
      properties \in { <<>>, <<<<"i","n","t">>>> },
      enums \in { <<>>, <<enumMode>>, <<enumMode, enumModeAgain>>,
                  <<enumModeWide, enumEdge>>, <<enumEdge, enumModeAgain>> } }

\* the most addClass calls of one behaviour
MaxAdds == 3

\* repository.addClass(classInfo.fullName, classInfo), as every caller
\* calls it; classes.size + duplicatesRemoved counts the calls
AddClass ==
  /\ Len(repository.classes) + repository.duplicatesRemoved < MaxAdds
  /\ \E classInfo \in ClassPool :
       repository' = addClass(repository, classInfo.fullName, classInfo)
  /\ UNCHANGED <<world, session, parsedClasses, serviceVars, pc, iteration,
                 pendingCount, maxIterationsWarned, lastSettled, mapperVars,
                 callVars>>

RepositoryNext == AddClass

SpecRepository == AnalyzerInit /\ [][RepositoryNext]_vars

\* the same name and value names
SameEnum(e, f) == e.name = f.name /\ e.values = f.values

\* an enum with the name and value names of e is among enums
EnumPresent(enums, e) == \E i \in 1..Len(enums) : SameEnum(enums[i], e)

\* no two enums of the list have the same name and value names
EnumsDistinct(enums) ==
  \A i, j \in 1..Len(enums) : SameEnum(enums[i], enums[j]) => i = j

\* later holds the enums of earlier, in order, then enums of added that
\* were not present; every enum of added is present in it, none twice
EnumsMerged(earlier, added, later) ==
  /\ Len(later) >= Len(earlier)
  /\ SubSeq(later, 1, Len(earlier)) = earlier
  /\ \A i \in (Len(earlier) + 1)..Len(later) :
       /\ \E j \in 1..Len(added) : later[i] = added[j]
       /\ ~EnumPresent(earlier, later[i])
  /\ \A j \in 1..Len(added) : EnumPresent(later, added[j])
  /\ EnumsDistinct(later)

\* C27: whatever was added before, addClass keeps every stored declaration
\* in its place with its members other than enums, a declaration with a
\* stored key only adds its enums that are not present, a new key stores
\* the declaration, and adding the declaration again changes neither the
\* classes nor their enums.
C27_AddIsIdempotentAndPreserving ==
  \A classInfo \in ClassPool :
    LET at == ClassIndex(repository.classes, classInfo.fullName)
        once == addClass(repository, classInfo.fullName, classInfo)
        twice == addClass(once, classInfo.fullName, classInfo)
        stored(i) == repository.classes[i]
    IN /\ twice.classes = once.classes
       /\ \A i \in 1..Len(repository.classes) :
            /\ i <= Len(once.classes)
            /\ [once.classes[i] EXCEPT !.enums = <<>>]
                 = [stored(i) EXCEPT !.enums = <<>>]
            /\ once.classes[i].enums =
                 IF i = at THEN once.classes[at].enums ELSE stored(i).enums
       /\ at # 0 =>
            /\ Len(once.classes) = Len(repository.classes)
            /\ EnumsMerged(stored(at).enums, classInfo.enums,
                           once.classes[at].enums)
       /\ at = 0 =>
            /\ Len(once.classes) = Len(repository.classes) + 1
            /\ [once.classes[Len(once.classes)] EXCEPT !.enums = <<>>]
                 = [classInfo EXCEPT !.enums = <<>>]
            /\ EnumsMerged(<<>>, classInfo.enums,
                           once.classes[Len(once.classes)].enums)

\* A was added three times: the stored declaration is the first one, without
\* a property, and holds the enums of all three, each once
C27_Witness ==
  /\ Len(repository.classes) = 1
  /\ repository.duplicatesRemoved = 2
  /\ repository.classes[1].fullName = <<"A">>
  /\ repository.classes[1].properties = <<>>
  /\ repository.classes[1].enums = <<enumMode, enumModeWide, enumEdge>>

(***************************************************************************)
(* Statistics of the dependency resolution (Spec)                          *)
(***************************************************************************)
\* the pending resolutions whose read ends in this step
SettlingNow ==
  { name \in DOMAIN pendingResolutions \cap DOMAIN pendingResolutions' :
      /\ ~pendingResolutions[name].settled
      /\ pendingResolutions'[name].settled }

\* C28: in every step the counters resolvedTypes and unresolvedTypes grow
\* together by the number of resolutions that settle in it, none of them
\* decreases, and a resolution that ended without a read and without a
\* count is one skipped for a name of the circular set.
C28_CountersFollowSettledResolutions ==
  [][/\ resolvedTypesCount' >= resolvedTypesCount
     /\ unresolvedTypesCount' >= unresolvedTypesCount
     /\ Cardinality(SettlingNow) <= 1
     /\ (resolvedTypesCount' + unresolvedTypesCount')
          = (resolvedTypesCount + unresolvedTypesCount)
              + Cardinality(SettlingNow)
     /\ \A name \in DOMAIN pendingResolutions' :
          pendingResolutions'[name].href = <<>>
            => /\ pendingResolutions'[name].settled
               /\ name \in circularDependencies']_vars

\* a read that failed and two reads of a page without a declaration were
\* counted as unresolved, and a resolution was skipped for a name of the
\* circular set
C28_Witness ==
  /\ unresolvedTypesCount = 3
  /\ resolvedTypesCount = 0
  /\ \E name \in DOMAIN pendingResolutions :
       /\ pendingResolutions[name].href = <<>>
       /\ name \in circularDependencies

(***************************************************************************)
(* ParsingPipeline (SpecPipeline)                                          *)
(*                                                                         *)
(* The value handed from stage to stage is the list of what it went        *)
(* through: the input of execute, then the name of every stage that        *)
(* processed it.                                                           *)
(***************************************************************************)
\* the names of the stages added to the pipeline
StageNames ==
  { <<"d","o","c","u","m","e","n","t","-","p","a","r","s","i","n","g">>, <<"d","e","p","e","n","d","e","n","c","y","-","r","e","s","o","l","u","t","i","o","n">>, <<"o","u","t","p","u","t","-","g","e","n","e","r","a","t","i","o","n">> }

\* the most stages of a pipeline
MaxStages == 3

\* the inputs of execute
PipelineInputs == { <<<<"a",".","h","t","m","l">>>>, <<<<"b",".","h","t","m","l">>>> }

\* what a stage returns for an input
StageOutput(stage, input) == Append(input, stage)

\* stage.process(result, context): the ways its promise can settle
process(stage, input) ==
  { [ok |-> TRUE, output |-> StageOutput(stage, input), message |-> <<>>],
    [ok |-> FALSE, output |-> <<>>, message |-> sNotFound] }

\* the loop of execute reaches the stage at position index, or its end
executeLoop(p, index, result) ==
  IF index <= Len(p.stages)
  THEN [p EXCEPT !.status = "running", !.index = index, !.result = result,
                 !.calls = Append(@, [stage |-> p.stages[index],
                                      input |-> result])]
  ELSE [p EXCEPT !.status = "fulfilled", !.result = result]

\* an execute without its catch and rethrow: a stage that fails is passed
\* over
executeResume_Swallowed(p, outcome) ==
  executeLoop([p EXCEPT !.settled = @ + 1], p.index + 1,
              IF outcome.ok THEN outcome.output ELSE p.result)

\* execute after its await: outcome is how the promise of stage.process
\* settled
executeResume(p, outcome) ==
  IF outcome.ok
  THEN executeLoop([p EXCEPT !.settled = @ + 1], p.index + 1, outcome.output)
  ELSE [p EXCEPT !.settled = @ + 1,
                 !.status = "rejected",
                 !.error = <<"P","i","p","e","l","i","n","e"," ","s","t","a","g","e"," ","'">> \o p.stages[p.index]
                             \o <<"'"," ","f","a","i","l","e","d",":"," ">> \o outcome.message]

\* ParsingPipeline.addStage, before execute is called or while it waits for
\* a stage: the loop of execute iterates this.stages itself and reaches a
\* stage pushed meanwhile
AddStage ==
  /\ pipeline.status \in {"idle", "running"}
  /\ Len(pipeline.stages) < MaxStages
  /\ \E stage \in StageNames :
       pipeline' = [pipeline EXCEPT !.stages = Append(@, stage)]
  /\ UNCHANGED <<mapperVars, resolverVars, parseCall, loadCall, trackCall>>

\* ParsingPipeline.removeStage, before execute is called
RemoveStage ==
  /\ pipeline.status = "idle"
  /\ \E stageName \in StageNames :
       pipeline' = [pipeline EXCEPT
                      !.stages = SelectSeq(@, LAMBDA stage : stage # stageName)]
  /\ UNCHANGED <<mapperVars, resolverVars, parseCall, loadCall, trackCall>>

\* ParsingPipeline.execute(input, context), up to its first await or, with
\* no stage, to its return
Execute ==
  /\ pipeline.status = "idle"
  /\ \E input \in PipelineInputs :
       pipeline' = executeLoop([pipeline EXCEPT !.input = input], 1, input)
  /\ UNCHANGED <<mapperVars, resolverVars, parseCall, loadCall, trackCall>>

\* the promise of the stage that execute waits for settles, and execute
\* runs to its next await, its return or its throw
ExecuteResume ==
  /\ pipeline.status = "running"
  /\ \E outcome \in process(pipeline.stages[pipeline.index], pipeline.result) :
       pipeline' = executeResume(pipeline, outcome)
  /\ UNCHANGED <<mapperVars, resolverVars, parseCall, loadCall, trackCall>>

PipelineNext == AddStage \/ RemoveStage \/ Execute \/ ExecuteResume

SpecPipeline == AnalyzerInit /\ [][PipelineNext]_vars

\* C29: the process calls of an execute are those of the first stages of
\* the pipeline in the order they were added, each with the output of the
\* stage before it and none before the stage before it has settled; an
\* execute that is rejected names the stage that failed, which is the last
\* one called, and an execute that is fulfilled has called every stage.
C29_StagesRunInOrder ==
  LET p == pipeline
      called == Len(p.calls)
  IN /\ called <= Len(p.stages)
     /\ called <= p.settled + 1
     /\ \A k \in 1..called :
          /\ p.calls[k].stage = p.stages[k]
          /\ p.calls[k].input =
               IF k = 1 THEN p.input
               ELSE StageOutput(p.stages[k - 1], p.calls[k - 1].input)
     /\ p.status = "running" => called = p.settled + 1
     /\ p.status = "rejected" =>
          /\ called = p.settled
          /\ called >= 1
          /\ p.error = <<"P","i","p","e","l","i","n","e"," ","s","t","a","g","e"," ","'">> \o p.stages[called]
                         \o <<"'"," ","f","a","i","l","e","d",":"," ">> \o sNotFound
     /\ p.status = "fulfilled" =>
          /\ called = Len(p.stages)
          /\ called = p.settled
          /\ p.result = IF called = 0 THEN p.input
                        ELSE StageOutput(p.stages[called], p.calls[called].input)

\* the second of three stages failed: execute was rejected with its name
\* and the third stage was not called
C29_Witness ==
  /\ pipeline.stages = << <<"d","o","c","u","m","e","n","t","-","p","a","r","s","i","n","g">>, <<"d","e","p","e","n","d","e","n","c","y","-","r","e","s","o","l","u","t","i","o","n">>,
                          <<"o","u","t","p","u","t","-","g","e","n","e","r","a","t","i","o","n">> >>
  /\ pipeline.status = "rejected"
  /\ Len(pipeline.calls) = 2
  /\ pipeline.calls[2].input = << <<"a",".","h","t","m","l">>, <<"d","o","c","u","m","e","n","t","-","p","a","r","s","i","n","g">> >>
  /\ pipeline.error = <<"P","i","p","e","l","i","n","e"," ","s","t","a","g","e"," ","'","d","e","p","e","n","d","e","n","c","y","-","r","e","s","o","l","u","t","i","o","n","'"," ","f","a","i","l","e","d",":"," ","N","o","t","F","o","u","n","d">>

(***************************************************************************)
(* The type mapper and the tracker of one parser (SpecBuiltin)             *)
(***************************************************************************)
\* types registered on the parser's type mapper at run time
RuntimeMappings ==
  { <<<<"F","o","o">>, <<"F","o","o","L","i","k","e">>>>, <<<<"B","a","s","e">>, <<"o","b","j","e","c","t">>>>,
    <<<<"K","W","i","n",":",":","W","i","n","d","o","w">>, <<"W","i","n","d","o","w">>>> }

\* typeMapper.addTypeMapping(cppType, tsType) on the type mapper of the
\* parser
AddRuntimeMapping ==
  /\ mutations < MaxMutations
  /\ \E m \in RuntimeMappings :
       registry' = registerType(registry, TypeDef(m[1], m[2], <<>>))
  /\ conversionCache' = EmptyMap
  /\ mutations' = mutations + 1
  /\ UNCHANGED <<convCall, addedRules, resolverVars, callVars>>

BuiltinNext == AddRuntimeMapping \/ ExtractTypeDependencies

SpecBuiltin == TrackerInit /\ [][BuiltinNext]_vars

\* C30: no dependency that extractTypeDependencies reports for a property, a
\* method or a signal has a type that the registry of the parser's type
\* mapper holds at the call.
C30_RegisteredTypeNotReported ==
  [][(~trackCall.called /\ trackCall'.called) =>
       \A i \in 1..Len(trackCall'.dependencies) :
         trackCall'.dependencies[i].usageType # "inheritance"
           => ~hasType(registry,
                       cleanTypeForLookup(trackCall'.dependencies[i].fullName))]_vars
====
